---- MODULE Spec2Model ----
(***************************************************************************)
(* A model of the contacts backend: the user store and the authentication *)
(* handlers (src/api/auth.py, src/repository/users.py, src/services/),    *)
(* and the contact store with its owner-scoped queries                     *)
(* (src/api/contacts.py, src/repository/contacts.py).                      *)
(*                                                                         *)
(* The relational store is modelled by what PostgreSQL does for the       *)
(* declared schema (src/database/models.py): serial primary keys, unique  *)
(* constraints checked at commit, age()/date_part() on dates.             *)
(***************************************************************************)
EXTENDS Integers, Sequences, FiniteSets, TLC

VARIABLES
    users,            \* the rows of table "users"
    next_user_id,     \* the serial behind users.id
    contacts,         \* the rows of table "contacts"
    next_contact_id,  \* the serial behind contacts.id
    cache,            \* the Redis keys "user:<username>" -> cached JSON
    mail,             \* background tasks scheduled and not yet run
    tokens,           \* the JWTs the service has signed and handed out
    reg,              \* the register requests in flight (one per slot)
    now,              \* the clock, in minutes
    today,            \* the database's current_date
    resp,             \* the response of the last handler that completed
    confirm_writes,   \* per email, the commits UserRepository.confirmed_email made
    result,           \* the rows returned by the last contact query
    db_calls          \* the session calls ContactRepository made for the
                      \* last contact request, in order

vars == <<users, next_user_id, contacts, next_contact_id, cache, mail,
          tokens, reg, now, today, resp, confirm_writes, result,
          db_calls>>

userVars == <<users, next_user_id>>
contactVars == <<contacts, next_contact_id>>

(***************************************************************************)
(* Values                                                                  *)
(***************************************************************************)
None == "<None>"
NoDate == <<0, 0, 0>>

Usernames == {"ann", "bob@x.io"}
Emails == {"ann@x.io", "bob@x.io"}
Passwords == {"pw1", "pw2"}
RegisterPasswords == {"pw1"}
RegisterRoles == {"user"}
AvatarUrls == {"url1"}

JWT_EXPIRATION_MINUTES == 5
EMAIL_TOKEN_MINUTES == 10080

The(S) == CHOOSE x \in S : TRUE

(***************************************************************************)
(* Credential hasher (services/auth.py, class Hash)                        *)
(***************************************************************************)
get_password_hash(password) == <<"bcrypt", password>>

verify_password(plain_password, hashed_password) ==
    hashed_password = <<"bcrypt", plain_password>>

(***************************************************************************)
(* Tokens (services/auth.py).  A JWT is its payload and whether its        *)
(* signature verifies under JWT_SECRET; neither kind carries a type claim. *)
(***************************************************************************)
NoToken == [sub |-> None, iat |-> -1, exp |-> -1, sig |-> "none"]

\* the subject of a payload that has no "sub" key
NoSub == "<no sub>"

create_access_token(sub, t) ==
    [sub |-> sub, iat |-> -1, exp |-> t + JWT_EXPIRATION_MINUTES, sig |-> "ok"]

create_email_token(sub, t) ==
    [sub |-> sub, iat |-> t, exp |-> t + EMAIL_TOKEN_MINUTES, sig |-> "ok"]

\* jwt.decode: the signature verifies and the token has not expired
jwt_decode_ok(token, t) == token.sig = "ok" /\ token.exp > t

\* tokens nobody signed with JWT_SECRET
ForgedTokens ==
    {[sub |-> s, iat |-> -1, exp |-> JWT_EXPIRATION_MINUTES, sig |-> "bad"] :
        s \in Emails}

(***************************************************************************)
(* User store (repository/users.py over database/models.py)               *)
(***************************************************************************)
get_user_by_username(us, username) == {u \in us : u.username = username}

\* a lookup that filters on the wrong column
get_user_by_email_wrong_column(us, email) == {u \in us : u.username = email}

get_user_by_email(us, email) == {u \in us : u.email = email}

\* the unique constraints of table users: username, email
UserUniqueViolation(us, row) ==
    \E u \in us : u.username = row.username \/ u.email = row.email

\* the row create_user adds: body.model_dump(exclude_unset, exclude password)
\* carries username, email, role; avatar and confirmed take column defaults
NewUserRow(id, body) ==
    [id |-> id, username |-> body.username, email |-> body.email,
     hashed_password |-> body.password, role |-> body.role,
     avatar |-> None, confirmed |-> FALSE]

\* an update that writes the row back with the column default for confirmed
update_avatar_url_resets(us, email, url) ==
    {IF u.email = email THEN [u EXCEPT !.avatar = url, !.confirmed = FALSE]
     ELSE u : u \in us}

update_avatar_url(us, email, url) ==
    {IF u.email = email THEN [u EXCEPT !.avatar = url] ELSE u : u \in us}

UserRepository_confirmed_email(us, email) ==
    {IF u.email = email THEN [u EXCEPT !.confirmed = TRUE] ELSE u : u \in us}

(***************************************************************************)
(* Responses                                                               *)
(***************************************************************************)
\* the fields of a user that UserDetail and the cache carry
NoProjection ==
    [id |-> 0, username |-> None, email |-> None, role |-> None,
     avatar |-> None, confirmed |-> FALSE]

Projection(u) ==
    [id |-> u.id, username |-> u.username, email |-> u.email, role |-> u.role,
     avatar |-> u.avatar, confirmed |-> u.confirmed]

SendTask(email, username, subject) ==
    [email |-> email, username |-> username, subject |-> subject]

NoTask == SendTask(None, None, None)

\* op: the handler; arg: the username, email or token subject it was called
\* for; token: the access token returned; sched: the background task added
\* cid: the contact id in the path; limit: the limit asked for (-1: none);
\* eff: the limit the query ran with (0: no query ran); skip, first_name,
\* last_name, email: the other query parameters of a list request; user:
\* the user a handler returned (id, username, email, role, avatar, confirmed)
Response(op, status, detail, arg) ==
    [op |-> op, status |-> status, detail |-> detail, arg |-> arg,
     token |-> NoToken, sched |-> NoTask, cid |-> 0, limit |-> -1, eff |-> 0,
     skip |-> 0, first_name |-> None, last_name |-> None, email |-> None,
     user |-> NoProjection]

NoResp == Response("none", 0, "", None)

(***************************************************************************)
(* Session cache (services/cache.py) and the authentication gate           *)
(* (services/auth.py, get_current_user)                                    *)
(***************************************************************************)
\* json.dumps / json.loads on the values of user_data: a JSON text is kept
\* as its members, each a null, a string, a number or a boolean
json_string(v) == IF v = None THEN <<"null">> ELSE <<"string", v>>

python_string(j) == IF j = <<"null">> THEN None ELSE j[2]

json_dumps(user_data) ==
    [id |-> <<"number", user_data.id>>,
     username |-> json_string(user_data.username),
     email |-> json_string(user_data.email),
     role |-> json_string(user_data.role),
     avatar |-> json_string(user_data.avatar),
     confirmed |-> <<"bool", user_data.confirmed>>]

json_loads(text) ==
    [id |-> text.id[2],
     username |-> python_string(text.username),
     email |-> python_string(text.email),
     role |-> python_string(text.role),
     avatar |-> python_string(text.avatar),
     confirmed |-> text.confirmed[2]]

\* a Redis key: kind "absent" (no key), "json" (the text of a JSON object),
\* "not_json" (a text json.loads rejects), "json_not_object" (a JSON text
\* that is not an object); exp: the minute the key expires (0: never)
CacheAbsent == [kind |-> "absent", data |-> json_dumps(NoProjection), exp |-> 0]

\* a User object as a handler holds it: the row, and whether it was loaded
\* from the store or built from the cached JSON (then it has no password)
StoredUser(u) ==
    [id |-> u.id, username |-> u.username, email |-> u.email,
     role |-> u.role, avatar |-> u.avatar, confirmed |-> u.confirmed,
     hashed_password |-> u.hashed_password, from_cache |-> FALSE]

CachedUser(d) ==
    [id |-> d.id, username |-> d.username, email |-> d.email,
     role |-> d.role, avatar |-> d.avatar, confirmed |-> d.confirmed,
     hashed_password |-> <<"none", None>>, from_cache |-> TRUE]

\* a value set without a time to live
CacheEntry_without_ttl(user, t) ==
    [kind |-> "json", data |-> json_dumps(Projection(user)), exp |-> 0]

\* update_cached_current_user: the value set under "user:<username>"
CacheEntry(user, t) ==
    [kind |-> "json",
     data |-> json_dumps(Projection(user)),
     exp |-> t + JWT_EXPIRATION_MINUTES]

\* get_cached_current_user: the cached user; empty: None is returned
get_cached_current_user(c, username) ==
    IF username \in DOMAIN c /\ c[username].kind = "json"
    THEN {CachedUser(json_loads(c[username].data))}
    ELSE {}

\* data.get on a list, a number, a string or None: AttributeError, which the
\* except clause for json.JSONDecodeError does not catch
get_cached_current_user_raises(c, username) ==
    username \in DOMAIN c /\ c[username].kind = "json_not_object"

\* the outcome of the gate: 200 (a user is returned), 401
\* (credentials_exception) or 500 (an exception the gate does not catch:
\* KeyError of payload["sub"], AttributeError of the cache lookup)
get_current_user_status(token, t, c, us) ==
    IF ~jwt_decode_ok(token, t) THEN 401
    ELSE IF token.sub = NoSub THEN 500
    ELSE IF token.sub = None THEN 401
    ELSE IF get_cached_current_user_raises(c, token.sub) THEN 500
    ELSE IF get_cached_current_user(c, token.sub) # {} THEN 200
    ELSE IF get_user_by_username(us, token.sub) # {} THEN 200
    ELSE 401

\* a gate that asks the user store first
get_current_user_store_first(token, t, c, us) ==
    IF get_current_user_status(token, t, c, us) # 200 THEN {}
    ELSE IF get_user_by_username(us, token.sub) # {}
         THEN {StoredUser(u) : u \in get_user_by_username(us, token.sub)}
         ELSE get_cached_current_user(c, token.sub)

\* the set holds the authenticated user; empty: the gate failed
get_current_user(token, t, c, us) ==
    IF get_current_user_status(token, t, c, us) # 200 THEN {}
    ELSE IF get_cached_current_user(c, token.sub) # {}
         THEN get_cached_current_user(c, token.sub)
         ELSE {StoredUser(u) : u \in get_user_by_username(us, token.sub)}

Unauthorized(op, token) ==
    Response(op, 401, "Could not validate credentials", token.sub)

\* the response of a request whose gate did not return a user
GateFailure(op, token) ==
    IF get_current_user_status(token, now, cache, users) = 500
    THEN Response(op, 500, "Internal Server Error", token.sub)
    ELSE Unauthorized(op, token)

(***************************************************************************)
(* Handlers of src/api/auth.py and src/api/users.py, each one request      *)
(***************************************************************************)
RegisterBodies ==
    [username : Usernames, email : Emails, password : RegisterPasswords,
     role : RegisterRoles]

\* register_user line 95: the password is replaced by its hash
HashedBody(body) == [body EXCEPT !.password = get_password_hash(body.password)]

ConfirmTask(u) == SendTask(u.email, u.username, "Confirm your email")

ResetTask(u) == SendTask(u.email, u.username, "Password reset")

\* what is unchanged by every handler of the user API
ContactSide == <<contacts, next_contact_id, today, result, db_calls>>

\* a register that logs the new user in
register_user_issues_token(body) ==
    /\ IF get_user_by_email(users, body.email) # {}
       THEN /\ resp' = Response("register", 409,
                    "User with the email already exists.", body.email)
            /\ UNCHANGED <<users, next_user_id, mail, tokens>>
       ELSE IF get_user_by_username(users, body.username) # {}
       THEN /\ resp' = Response("register", 409,
                    "User with the username already exists.", body.email)
            /\ UNCHANGED <<users, next_user_id, mail, tokens>>
       ELSE LET row == NewUserRow(next_user_id, HashedBody(body)) IN
            /\ users' = users \cup {row}
            /\ next_user_id' = next_user_id + 1
            /\ mail' = mail \cup {ConfirmTask(row)}
            /\ tokens' = tokens \cup {create_access_token(row.username, now)}
            /\ resp' = [Response("register", 201, "", body.email)
                            EXCEPT !.sched = ConfirmTask(row),
                                   !.user = Projection(row),
                                   !.token = create_access_token(row.username, now)]
    /\ UNCHANGED <<cache, reg, now, confirm_writes>>
    /\ UNCHANGED ContactSide

register_user(body) ==
    /\ IF get_user_by_email(users, body.email) # {}
       THEN /\ resp' = Response("register", 409,
                    "User with the email already exists.", body.email)
            /\ UNCHANGED <<users, next_user_id, mail>>
       ELSE IF get_user_by_username(users, body.username) # {}
       THEN /\ resp' = Response("register", 409,
                    "User with the username already exists.", body.email)
            /\ UNCHANGED <<users, next_user_id, mail>>
       ELSE LET row == NewUserRow(next_user_id, HashedBody(body)) IN
            /\ users' = users \cup {row}
            /\ next_user_id' = next_user_id + 1
            /\ mail' = mail \cup {ConfirmTask(row)}
            /\ resp' = [Response("register", 201, "", body.email)
                            EXCEPT !.sched = ConfirmTask(row),
                                   !.user = Projection(row)]
    /\ UNCHANGED <<cache, tokens, reg, now, confirm_writes>>
    /\ UNCHANGED ContactSide

\* a login that does not look at the confirmed flag
login_user_skips_confirmed(username, password) ==
    LET found == get_user_by_username(users, username) IN
    /\ IF found = {} \/ ~verify_password(password, The(found).hashed_password)
       THEN /\ resp' = Response("login", 401,
                    "Invalid username or password", username)
            /\ UNCHANGED tokens
       ELSE LET access_token == create_access_token(The(found).username, now) IN
            /\ tokens' = tokens \cup {access_token}
            /\ resp' = [Response("login", 201, "", username)
                            EXCEPT !.token = access_token]
    /\ UNCHANGED <<users, next_user_id, cache, mail, reg, now, confirm_writes>>
    /\ UNCHANGED ContactSide

login_user(username, password) ==
    LET found == get_user_by_username(users, username) IN
    /\ IF found = {} \/ ~verify_password(password, The(found).hashed_password)
       THEN /\ resp' = Response("login", 401,
                    "Invalid username or password", username)
            /\ UNCHANGED tokens
       ELSE IF ~The(found).confirmed
       THEN /\ resp' = Response("login", 401,
                    "Email address is not verified", username)
            /\ UNCHANGED tokens
       ELSE LET access_token == create_access_token(The(found).username, now) IN
            /\ tokens' = tokens \cup {access_token}
            /\ resp' = [Response("login", 201, "", username)
                            EXCEPT !.token = access_token]
    /\ UNCHANGED <<users, next_user_id, cache, mail, reg, now, confirm_writes>>
    /\ UNCHANGED ContactSide

\* a handler without the "already verified" short-circuit
confirmed_email_always_writes(token) ==
    LET email == token.sub
        found == get_user_by_email(users, email) IN
    /\ IF ~jwt_decode_ok(token, now)
       THEN /\ resp' = Response("confirmed_email", 422,
                    "Invalid token for email verification", email)
            /\ UNCHANGED <<users, confirm_writes>>
       ELSE IF email = NoSub
       THEN /\ resp' = Response("confirmed_email", 500,
                    "Internal Server Error", email)
            /\ UNCHANGED <<users, confirm_writes>>
       ELSE IF found = {}
       THEN /\ resp' = Response("confirmed_email", 400,
                    "Verification error", email)
            /\ UNCHANGED <<users, confirm_writes>>
       ELSE /\ users' = UserRepository_confirmed_email(users, email)
            /\ confirm_writes' =
                   [confirm_writes EXCEPT ![email] = confirm_writes[email] + 1]
            /\ resp' = Response("confirmed_email", 200,
                    "Your email is verified", email)
    /\ UNCHANGED <<next_user_id, cache, mail, tokens, reg, now>>
    /\ UNCHANGED ContactSide

confirmed_email(token) ==
    LET email == token.sub
        found == get_user_by_email(users, email) IN
    /\ IF ~jwt_decode_ok(token, now)
       THEN /\ resp' = Response("confirmed_email", 422,
                    "Invalid token for email verification", email)
            /\ UNCHANGED <<users, confirm_writes>>
       ELSE IF email = NoSub
       THEN /\ resp' = Response("confirmed_email", 500,
                    "Internal Server Error", email)
            /\ UNCHANGED <<users, confirm_writes>>
       ELSE IF found = {}
       THEN /\ resp' = Response("confirmed_email", 400,
                    "Verification error", email)
            /\ UNCHANGED <<users, confirm_writes>>
       ELSE IF The(found).confirmed
       THEN /\ resp' = Response("confirmed_email", 200,
                    "Your email is already verified", email)
            /\ UNCHANGED <<users, confirm_writes>>
       ELSE /\ users' = UserRepository_confirmed_email(users, email)
            /\ confirm_writes' =
                   [confirm_writes EXCEPT ![email] = confirm_writes[email] + 1]
            /\ resp' = Response("confirmed_email", 200,
                    "Your email is verified", email)
    /\ UNCHANGED <<next_user_id, cache, mail, tokens, reg, now>>
    /\ UNCHANGED ContactSide

\* a handler that tells the caller when no account has the email
forgot_password_reveals(email) ==
    LET found == get_user_by_email(users, email) IN
    /\ IF found # {} /\ The(found).confirmed
       THEN /\ mail' = mail \cup {ResetTask(The(found))}
            /\ resp' = [Response("forgot_password", 202,
                            "Password reset requested.", email)
                            EXCEPT !.sched = ResetTask(The(found))]
       ELSE /\ UNCHANGED mail
            /\ resp' = Response("forgot_password",
                            IF found = {} THEN 404 ELSE 202,
                            IF found = {} THEN "User not found"
                            ELSE "Password reset requested.", email)
    /\ UNCHANGED <<users, next_user_id, cache, tokens, reg, now, confirm_writes>>
    /\ UNCHANGED ContactSide

forgot_password(email) ==
    LET found == get_user_by_email(users, email) IN
    /\ IF found # {} /\ The(found).confirmed
       THEN /\ mail' = mail \cup {ResetTask(The(found))}
            /\ resp' = [Response("forgot_password", 202,
                            "Password reset requested.", email)
                            EXCEPT !.sched = ResetTask(The(found))]
       ELSE /\ UNCHANGED mail
            /\ resp' = Response("forgot_password", 202,
                    "Password reset requested.", email)
    /\ UNCHANGED <<users, next_user_id, cache, tokens, reg, now, confirm_writes>>
    /\ UNCHANGED ContactSide

\* get_email_from_token catches InvalidTokenError only: payload["sub"] on a
\* payload without the key raises KeyError, a 500.
\* POST reset_password: UserService (services/users.py) defines no
\* update_password, so line 226 raises AttributeError: a 500, nothing written
reset_password(token, password) ==
    LET email == token.sub
        found == get_user_by_email(users, email) IN
    /\ resp' = IF ~jwt_decode_ok(token, now)
               THEN Response("reset_password", 422,
                        "Invalid token for email verification", email)
               ELSE IF email = NoSub
               THEN Response("reset_password", 500, "Internal Server Error", email)
               ELSE IF found = {} \/ ~The(found).confirmed
               THEN Response("reset_password", 400, "Verification error", email)
               ELSE Response("reset_password", 500, "Internal Server Error", email)
    /\ UNCHANGED <<users, next_user_id, cache, mail, tokens, reg, now,
                   confirm_writes>>
    /\ UNCHANGED ContactSide

\* PATCH /users/avatar: the gate, the upload to the image host, the update;
\* update_avatar_url dereferences the row it finds by the user's email
update_user_avatar(token, url) ==
    LET auth == get_current_user(token, now, cache, users) IN
    /\ IF auth = {}
       THEN /\ resp' = GateFailure("update_user_avatar", token)
            /\ UNCHANGED users
       ELSE IF get_user_by_email(users, The(auth).email) = {}
       THEN /\ resp' = Response("update_user_avatar", 500,
                    "Internal Server Error", token.sub)
            /\ UNCHANGED users
       ELSE /\ users' = update_avatar_url(users, The(auth).email, url)
            /\ resp' = Response("update_user_avatar", 200, "", token.sub)
    /\ UNCHANGED <<next_user_id, cache, mail, tokens, reg, now, confirm_writes>>
    /\ UNCHANGED ContactSide

\* a gate that merges the user it built from the cache into the session and
\* commits: the stored row takes the cached values
me_merging_cached_user(token) ==
    LET auth == get_current_user(token, now, cache, users) IN
    /\ resp' = IF auth = {} THEN GateFailure("me", token)
               ELSE [Response("me", 200, "", token.sub)
                        EXCEPT !.user = Projection(The(auth))]
    /\ users' = IF auth # {} /\ The(auth).from_cache
                THEN {IF u.id = The(auth).id
                      THEN [u EXCEPT !.username = The(auth).username,
                                     !.email = The(auth).email,
                                     !.role = The(auth).role,
                                     !.avatar = The(auth).avatar,
                                     !.confirmed = The(auth).confirmed]
                      ELSE u : u \in users}
                ELSE users
    /\ UNCHANGED <<next_user_id, cache, mail, tokens, reg, now, confirm_writes>>
    /\ UNCHANGED ContactSide

\* GET /users/me: the gate, then the user it returned
me(token) ==
    LET auth == get_current_user(token, now, cache, users) IN
    /\ resp' = IF auth = {} THEN GateFailure("me", token)
               ELSE [Response("me", 200, "", token.sub)
                        EXCEPT !.user = Projection(The(auth))]
    /\ UNCHANGED <<users, next_user_id, cache, mail, tokens, reg, now,
                   confirm_writes>>
    /\ UNCHANGED ContactSide

\* redis SET "user:<username>" with ex = JWT_EXPIRATION_MINUTES * 60 seconds
update_cached_current_user(user) ==
    /\ cache' = [cache EXCEPT ![user.username] = CacheEntry(user, now)]
    /\ UNCHANGED <<users, next_user_id, mail, tokens, reg, now, resp,
                   confirm_writes>>
    /\ UNCHANGED ContactSide

\* a minute passes; Redis drops the keys whose time to live has run out
Tick ==
    /\ now' = now + 1
    /\ cache' = [k \in DOMAIN cache |->
                    IF cache[k].exp > 0 /\ cache[k].exp <= now + 1
                    THEN CacheAbsent ELSE cache[k]]
    /\ UNCHANGED <<users, next_user_id, mail, tokens, reg, resp, confirm_writes>>
    /\ UNCHANGED ContactSide

\* the background task (services/email.py): it signs the action token when it
\* runs; whether the SMTP delivery succeeds is the mail server's choice.
\* ConnectionErrors is caught and printed; any other exception leaves the
\* task, which runs after the response of its request has been sent
SendOutcomes == {"sent", "ConnectionErrors", "Exception"}

\* a task whose failure replaces the response of the request
send_email_surfaces(task, outcome) ==
    /\ task \in mail
    /\ mail' = mail \ {task}
    /\ tokens' = IF outcome = "sent"
                 THEN tokens \cup {create_email_token(task.email, now)}
                 ELSE tokens
    /\ resp' = IF outcome = "sent" THEN resp
               ELSE [resp EXCEPT !.status = 500,
                                 !.detail = "Internal Server Error"]
    /\ UNCHANGED <<users, next_user_id, cache, reg, now, confirm_writes>>
    /\ UNCHANGED ContactSide

send_email(task, outcome) ==
    /\ task \in mail
    /\ mail' = mail \ {task}
    /\ tokens' = IF outcome = "sent"
                 THEN tokens \cup {create_email_token(task.email, now)}
                 ELSE tokens
    /\ UNCHANGED <<users, next_user_id, cache, reg, now, resp, confirm_writes>>
    /\ UNCHANGED ContactSide

(***************************************************************************)
(* SpecAuth: the user API, one request at a time                           *)
(***************************************************************************)
InitAuth ==
    /\ users = {}
    /\ next_user_id = 1
    /\ contacts = {}
    /\ next_contact_id = 1
    /\ cache = [u \in Usernames |-> CacheAbsent]
    /\ mail = {}
    /\ tokens = {}
    /\ reg = <<>>
    /\ now = 0
    /\ today = NoDate
    /\ resp = NoResp
    /\ confirm_writes = [e \in Emails |-> 0]
    /\ result = {}
    /\ db_calls = <<>>

RegisterStep == \E body \in RegisterBodies : register_user(body)

LoginStep == \E u \in Usernames, p \in Passwords : login_user(u, p)

ConfirmStep == \E t \in tokens \cup ForgedTokens : confirmed_email(t)

ForgotStep == \E e \in Emails : forgot_password(e)

ResetStep ==
    \E t \in tokens \cup ForgedTokens, p \in Passwords : reset_password(t, p)

AvatarStep ==
    \E t \in tokens \cup ForgedTokens, url \in AvatarUrls :
        update_user_avatar(t, url)

SendStep == \E task \in mail, o \in SendOutcomes : send_email(task, o)

NextAuth ==
    \/ RegisterStep
    \/ LoginStep
    \/ ConfirmStep
    \/ ForgotStep
    \/ ResetStep
    \/ AvatarStep
    \/ SendStep

SpecAuth == InitAuth /\ [][NextAuth]_vars

(***************************************************************************)
(* Dates, and PostgreSQL's age() and date_part('year', ...) on them        *)
(***************************************************************************)
IsLeap(y) == (y % 4 = 0 /\ y % 100 # 0) \/ y % 400 = 0

DaysInMonth(y, m) ==
    IF m = 2 THEN (IF IsLeap(y) THEN 29 ELSE 28)
    ELSE IF m \in {4, 6, 9, 11} THEN 30 ELSE 31

NextDay(d) ==
    IF d[3] < DaysInMonth(d[1], d[2]) THEN <<d[1], d[2], d[3] + 1>>
    ELSE IF d[2] < 12 THEN <<d[1], d[2] + 1, 1>>
    ELSE <<d[1] + 1, 1, 1>>

PrevDay(d) ==
    IF d[3] > 1 THEN <<d[1], d[2], d[3] - 1>>
    ELSE IF d[2] > 1 THEN <<d[1], d[2] - 1, DaysInMonth(d[1], d[2] - 1)>>
    ELSE <<d[1] - 1, 12, 31>>

RECURSIVE AddDays(_, _)
AddDays(d, k) ==
    IF k = 0 THEN d
    ELSE IF k > 0 THEN AddDays(NextDay(d), k - 1)
    ELSE AddDays(PrevDay(d), k + 1)

\* date_part('year', age(d)): age() subtracts field by field from
\* current_date and borrows a year when (month, day) has not been reached
AgeYears(d, cur) ==
    cur[1] - d[1]
      - (IF cur[2] < d[2] \/ (cur[2] = d[2] /\ cur[3] < d[3]) THEN 1 ELSE 0)

\* _age_years_at: the age of (date_col - next_days days)
age_years_at(date_col, next_days, cur) ==
    AgeYears(IF next_days # 0 THEN AddDays(date_col, 0 - next_days) ELSE date_col,
             cur)

\* _has_birthday_next_days; a NULL date of birth makes the comparison NULL
has_birthday_next_days(date_col, next_days, cur) ==
    /\ date_col # NoDate
    /\ age_years_at(date_col, next_days, cur) > age_years_at(date_col, 0, cur)

BIRTHDAY_DAYS == 7

(***************************************************************************)
(* Contact store (repository/contacts.py over database/models.py)          *)
(***************************************************************************)
Unset == "<Unset>"
UnsetDate == <<-1, -1, -1>>

\* PhoneNumberValidator: a phone is stored in its RFC 3966 form
NormalizePhone(p) ==
    CASE p = "+380671234567" -> "tel:+380-67-123-4567"
      [] p = "+380 67 123 4567" -> "tel:+380-67-123-4567"
      [] p = "+380501234567" -> "tel:+380-50-123-4567"
      [] p = "+380671000002" -> "tel:+380-67-100-0002"
      [] p = "+380671000003" -> "tel:+380-67-100-0003"
      [] OTHER -> p

\* the request body as the schema validated it (ContactModel)
ValidatedBody(body) == [body EXCEPT !.phone = NormalizePhone(body.phone)]

\* a statement without the filter on the owner
OwnedBy_unscoped(cs, user) == cs

OwnedBy(cs, user) == {c \in cs : c.user_id = user.id}

\* a lookup by id alone
get_contact_by_id_any_owner(cs, user, contact_id) ==
    {c \in cs : c.id = contact_id}

get_contact_by_id(cs, user, contact_id) ==
    {c \in OwnedBy(cs, user) : c.id = contact_id}

\* a WHERE clause that drops the filter on email
MatchingContacts_without_email(cs, user, first_name, last_name, email, birthdays, cur) ==
    IF birthdays
    THEN {c \in OwnedBy(cs, user) :
            has_birthday_next_days(c.date_of_birth, BIRTHDAY_DAYS, cur)}
    ELSE {c \in OwnedBy(cs, user) :
            /\ (first_name \notin {None, ""} => c.first_name = first_name)
            /\ (last_name \notin {None, ""} => c.last_name = last_name)}

\* the WHERE clause of get_contacts
MatchingContacts(cs, user, first_name, last_name, email, birthdays, cur) ==
    IF birthdays
    THEN {c \in OwnedBy(cs, user) :
            has_birthday_next_days(c.date_of_birth, BIRTHDAY_DAYS, cur)}
    ELSE {c \in OwnedBy(cs, user) :
            /\ (first_name \notin {None, ""} => c.first_name = first_name)
            /\ (last_name \notin {None, ""} => c.last_name = last_name)
            /\ (email \notin {None, ""} => c.email = email)}

\* a page that forgets LIMIT
PageSize_without_limit(n, skip, limit) == IF n > skip THEN n - skip ELSE 0

\* the number of rows OFFSET skip LIMIT limit leaves of n rows
PageSize(n, skip, limit) ==
    LET rest == IF n > skip THEN n - skip ELSE 0 IN
    IF limit # 0 /\ limit < rest THEN limit ELSE rest

\* the subsets of S that have k elements
RECURSIVE KSubsets(_, _)
KSubsets(S, k) ==
    IF k = 0 THEN {{}}
    ELSE IF k = Cardinality(S) THEN {S}
    ELSE LET x == CHOOSE x \in S : TRUE IN
         KSubsets(S \ {x}, k) \cup {T \cup {x} : T \in KSubsets(S \ {x}, k - 1)}

\* the results get_contacts may return: the statement has no ORDER BY, so
\* any rows of the right number can make up the page
get_contacts(cs, user, skip, limit, first_name, last_name, email, birthdays, cur) ==
    LET rows == MatchingContacts(cs, user, first_name, last_name, email,
                                 birthdays, cur) IN
    IF birthdays THEN {rows}
    ELSE KSubsets(rows, PageSize(Cardinality(rows), skip, limit))

\* Contact(**body.model_dump(exclude_unset=True), user=user)
NewContactRow(id, user, body) ==
    [id |-> id, user_id |-> user.id,
     first_name |-> IF body.first_name = Unset THEN None ELSE body.first_name,
     last_name |-> IF body.last_name = Unset THEN None ELSE body.last_name,
     email |-> IF body.email = Unset THEN None ELSE body.email,
     phone |-> IF body.phone = Unset THEN None ELSE body.phone,
     date_of_birth |-> IF body.date_of_birth = UnsetDate THEN NoDate
                       ELSE body.date_of_birth]

\* an update that writes every field of the body, set or not
UpdatedContactRow_replaces(c, body) ==
    [id |-> c.id, user_id |-> c.user_id,
     first_name |-> IF body.first_name = Unset THEN c.first_name ELSE body.first_name,
     last_name |-> IF body.last_name = Unset THEN None ELSE body.last_name,
     email |-> IF body.email = Unset THEN None ELSE body.email,
     phone |-> IF body.phone = Unset THEN None ELSE body.phone,
     date_of_birth |-> IF body.date_of_birth = UnsetDate THEN NoDate
                       ELSE body.date_of_birth]

\* update_contact: setattr for every field the body has set
UpdatedContactRow(c, body) ==
    [id |-> c.id, user_id |-> c.user_id,
     first_name |-> IF body.first_name = Unset THEN c.first_name ELSE body.first_name,
     last_name |-> IF body.last_name = Unset THEN c.last_name ELSE body.last_name,
     email |-> IF body.email = Unset THEN c.email ELSE body.email,
     phone |-> IF body.phone = Unset THEN c.phone ELSE body.phone,
     date_of_birth |-> IF body.date_of_birth = UnsetDate THEN c.date_of_birth
                       ELSE body.date_of_birth]

\* a table contacts whose first_name is unique too
ContactIntegrityError_unique_names(others, row) ==
    IF row.first_name = None \/ row.phone = None THEN "null"
    ELSE IF row.email # None /\ \E c \in others : c.email = row.email THEN "email"
    ELSE IF \E c \in others : c.phone = row.phone THEN "phone"
    ELSE IF \E c \in others : c.first_name = row.first_name THEN "first_name"
    ELSE "none"

\* a table contacts without the unique constraint on phone
ContactIntegrityError_email_only(others, row) ==
    IF row.first_name = None \/ row.phone = None THEN "null"
    ELSE IF row.email # None /\ \E c \in others : c.email = row.email THEN "email"
    ELSE "none"

\* the constraints of table contacts, in the order PostgreSQL reports them:
\* NOT NULL (first_name, phone), then UNIQUE (email), then UNIQUE (phone)
ContactIntegrityError(others, row) ==
    IF row.first_name = None \/ row.phone = None THEN "null"
    ELSE IF row.email # None /\ \E c \in others : c.email = row.email THEN "email"
    ELSE IF \E c \in others : c.phone = row.phone THEN "phone"
    ELSE "none"

\* a row that takes no part in the error reported
NoContact ==
    [id |-> 0, user_id |-> 0, first_name |-> None, last_name |-> None,
     email |-> None, phone |-> None, date_of_birth |-> NoDate]

\* extract_integrity_error_message: the column and the value that collided
extract_integrity_error_message(err, row) ==
    CASE err = "email" ->
            "The value '" \o row.email
                \o "' for 'email' is already taken. Please use another one."
      [] err = "phone" ->
            "The value '" \o row.phone
                \o "' for 'phone' is already taken. Please use another one."
      [] OTHER -> "A database integrity error occurred. Please check your input."

\* PastDate, ge=date(1900, 1, 1)
DateBefore(a, b) ==
    \/ a[1] < b[1]
    \/ a[1] = b[1] /\ a[2] < b[2]
    \/ a[1] = b[1] /\ a[2] = b[2] /\ a[3] < b[3]

date_of_birth_accepted(d, cur) ==
    \/ d \in {UnsetDate, NoDate}
    \/ DateBefore(d, cur) /\ ~DateBefore(d, <<1900, 1, 1>>)

\* _create_fake_contact: Faker draws the name and the date of birth; its
\* unique email and phone are new among the values Faker has made, written
\* here from the id the row will get
FakeEmail(id) == "seed" \o ToString(id) \o "@example.org"

FakePhone(id) ==
    "tel:+380-67-100-" \o (IF id < 10 THEN "000" ELSE "00") \o ToString(id)

FakeContactRow(id, user, first_name, date_of_birth) ==
    [id |-> id, user_id |-> user.id, first_name |-> first_name,
     last_name |-> "Shevchenko", email |-> FakeEmail(id),
     phone |-> FakePhone(id), date_of_birth |-> date_of_birth]

(***************************************************************************)
(* Handlers of src/api/contacts.py, each one request: the gate, then the   *)
(* service call                                                            *)
(***************************************************************************)
DEFAULT_LIMIT == 10
MIN_LIMIT == 10
MAX_LIMIT == 100
NoLimit == -1

UserSide == <<users, next_user_id, cache, mail, tokens, reg, now, confirm_writes>>

\* a Query without ge: any limit up to the ceiling passes validation
limit_accepted_without_floor(limit) == limit <= MAX_LIMIT

\* Query(default=10, le=100, ge=10)
limit_accepted(limit) == limit = NoLimit \/ (limit >= MIN_LIMIT /\ limit <= MAX_LIMIT)

effective_limit(limit) == IF limit = NoLimit THEN DEFAULT_LIMIT ELSE limit

\* session.add of a Contact whose user is the User built from the cached
\* JSON cascades to that User: the flush INSERTs it into users first, without
\* a hashed_password, and PostgreSQL rejects the row (NOT NULL)
UserCascadeError(user) == user.from_cache

read_contacts(token, skip, limit, first_name, last_name, email) ==
    LET auth == get_current_user(token, now, cache, users) IN
    /\ IF auth = {}
       THEN /\ resp' = [GateFailure("read_contacts", token)
                            EXCEPT !.limit = limit, !.skip = skip,
                                   !.first_name = first_name,
                                   !.last_name = last_name, !.email = email]
            /\ result' = {}
            /\ db_calls' = <<>>
       ELSE IF ~limit_accepted(limit)
       THEN /\ resp' = [Response("read_contacts", 422,
                            "Input should be in range", token.sub)
                            EXCEPT !.limit = limit, !.skip = skip,
                                   !.first_name = first_name,
                                   !.last_name = last_name, !.email = email]
            /\ result' = {}
            /\ db_calls' = <<>>
       ELSE /\ resp' = [Response("read_contacts", 200, "", token.sub)
                            EXCEPT !.limit = limit, !.eff = effective_limit(limit),
                                   !.skip = skip, !.first_name = first_name,
                                   !.last_name = last_name, !.email = email]
            /\ result' \in get_contacts(contacts, The(auth), skip,
                              effective_limit(limit), first_name, last_name,
                              email, FALSE, today)
            /\ db_calls' = <<"execute">>
    /\ UNCHANGED <<contacts, next_contact_id, today>>
    /\ UNCHANGED UserSide

read_contacts_with_birthdays(token) ==
    LET auth == get_current_user(token, now, cache, users) IN
    /\ IF auth = {}
       THEN /\ resp' = GateFailure("read_contacts_with_birthdays", token)
            /\ result' = {}
            /\ db_calls' = <<>>
       ELSE /\ resp' = Response("read_contacts_with_birthdays", 200, "", token.sub)
            /\ result' \in get_contacts(contacts, The(auth), 0, 0, None, None,
                              None, TRUE, today)
            /\ db_calls' = <<"execute">>
    /\ UNCHANGED <<contacts, next_contact_id, today>>
    /\ UNCHANGED UserSide

read_contact(token, contact_id) ==
    LET auth == get_current_user(token, now, cache, users) IN
    /\ IF auth = {}
       THEN /\ resp' = GateFailure("read_contact", token)
            /\ result' = {}
            /\ db_calls' = <<>>
       ELSE LET contact == get_contact_by_id(contacts, The(auth), contact_id) IN
            /\ resp' = [(IF contact = {}
                         THEN Response("read_contact", 404, "Contact not found",
                                       token.sub)
                         ELSE Response("read_contact", 200, "", token.sub))
                            EXCEPT !.cid = contact_id]
            /\ result' = contact
            /\ db_calls' = <<"execute">>
    /\ UNCHANGED <<contacts, next_contact_id, today>>
    /\ UNCHANGED UserSide

\* a seed that commits after every row
seed_contacts_row_by_row(token, count, first_name, date_of_birth) ==
    LET auth == get_current_user(token, now, cache, users) IN
    /\ IF auth = {}
       THEN /\ resp' = GateFailure("seed_contacts", token)
            /\ db_calls' = <<>>
            /\ UNCHANGED <<contacts, next_contact_id>>
       ELSE IF UserCascadeError(The(auth)) /\ count > 0
       THEN /\ resp' = Response("seed_contacts", 422,
                            extract_integrity_error_message("null", NoContact),
                            token.sub)
            /\ db_calls' = <<"add", "commit">>
            /\ UNCHANGED <<contacts, next_contact_id>>
       ELSE LET rows == {FakeContactRow(next_contact_id + i, The(auth),
                                       first_name, date_of_birth) :
                            i \in 0..(count - 1)}
                bad == {r \in rows : ContactIntegrityError(contacts, r) # "none"} IN
            /\ next_contact_id' = next_contact_id + count
            /\ db_calls' = [i \in 1..(2 * count) |->
                               IF i % 2 = 1 THEN "add" ELSE "commit"]
            /\ IF bad # {}
               THEN /\ resp' = Response("seed_contacts", 422,
                                extract_integrity_error_message(
                                    ContactIntegrityError(contacts, The(bad)),
                                    The(bad)),
                                token.sub)
                    /\ contacts' = contacts \cup
                          {r \in rows : \A b \in bad : r.id < b.id}
               ELSE /\ contacts' = contacts \cup rows
                    /\ resp' = Response("seed_contacts", 201,
                                    "contacts created successfully", token.sub)
    /\ result' = {}
    /\ UNCHANGED today
    /\ UNCHANGED UserSide

\* seed_contacts: count rows added to the session, one commit; the INSERTs
\* draw their ids from the serial before the constraints are checked
seed_contacts(token, count, first_name, date_of_birth) ==
    LET auth == get_current_user(token, now, cache, users) IN
    /\ IF auth = {}
       THEN /\ resp' = GateFailure("seed_contacts", token)
            /\ db_calls' = <<>>
            /\ UNCHANGED <<contacts, next_contact_id>>
       ELSE IF UserCascadeError(The(auth)) /\ count > 0
       THEN /\ resp' = Response("seed_contacts", 422,
                            extract_integrity_error_message("null", NoContact),
                            token.sub)
            /\ db_calls' = [i \in 1..(count + 1) |->
                               IF i <= count THEN "add" ELSE "commit"]
            /\ UNCHANGED <<contacts, next_contact_id>>
       ELSE LET rows == {FakeContactRow(next_contact_id + i, The(auth),
                                       first_name, date_of_birth) :
                            i \in 0..(count - 1)}
                bad == {r \in rows : ContactIntegrityError(contacts, r) # "none"} IN
            /\ next_contact_id' = next_contact_id + count
            /\ db_calls' = [i \in 1..(count + 1) |->
                               IF i <= count THEN "add" ELSE "commit"]
            /\ IF bad # {}
               THEN /\ resp' = Response("seed_contacts", 422,
                                extract_integrity_error_message(
                                    ContactIntegrityError(contacts, The(bad)),
                                    The(bad)),
                                token.sub)
                    /\ UNCHANGED contacts
               ELSE /\ contacts' = contacts \cup rows
                    /\ resp' = Response("seed_contacts", 201,
                                    "contacts created successfully", token.sub)
    /\ result' = {}
    /\ UNCHANGED today
    /\ UNCHANGED UserSide

\* the INSERT draws the id from the serial before the constraints are checked
create_contact(token, body) ==
    LET auth == get_current_user(token, now, cache, users) IN
    /\ IF auth = {}
       THEN /\ resp' = GateFailure("create_contact", token)
            /\ result' = {}
            /\ db_calls' = <<>>
            /\ UNCHANGED <<contacts, next_contact_id>>
       ELSE IF ~date_of_birth_accepted(body.date_of_birth, today)
       THEN /\ resp' = Response("create_contact", 422,
                            "Date should be in the past", token.sub)
            /\ result' = {}
            /\ db_calls' = <<>>
            /\ UNCHANGED <<contacts, next_contact_id>>
       ELSE IF UserCascadeError(The(auth))
       THEN /\ resp' = Response("create_contact", 422,
                            extract_integrity_error_message("null", NoContact),
                            token.sub)
            /\ result' = {}
            /\ db_calls' = <<"add", "commit">>
            /\ UNCHANGED <<contacts, next_contact_id>>
       ELSE LET row == NewContactRow(next_contact_id, The(auth), ValidatedBody(body))
                err == ContactIntegrityError(contacts, row) IN
            /\ next_contact_id' = next_contact_id + 1
            /\ IF err # "none"
               THEN /\ resp' = Response("create_contact", 422,
                                extract_integrity_error_message(err, row),
                                token.sub)
                    /\ result' = {}
                    /\ db_calls' = <<"add", "commit">>
                    /\ UNCHANGED contacts
               ELSE /\ contacts' = contacts \cup {row}
                    /\ resp' = [Response("create_contact", 201, "", token.sub)
                                    EXCEPT !.cid = row.id]
                    /\ result' = {row}
                    /\ db_calls' = <<"add", "commit", "refresh">>
    /\ UNCHANGED today
    /\ UNCHANGED UserSide

update_contact(token, contact_id, body) ==
    LET auth == get_current_user(token, now, cache, users) IN
    /\ IF auth = {}
       THEN /\ resp' = GateFailure("update_contact", token)
            /\ result' = {}
            /\ db_calls' = <<>>
            /\ UNCHANGED contacts
       ELSE LET contact == get_contact_by_id(contacts, The(auth), contact_id) IN
            IF ~date_of_birth_accepted(body.date_of_birth, today)
            THEN /\ resp' = [Response("update_contact", 422,
                                "Date should be in the past", token.sub)
                                EXCEPT !.cid = contact_id]
                 /\ result' = {}
                 /\ db_calls' = <<>>
                 /\ UNCHANGED contacts
            ELSE IF contact = {}
            THEN /\ resp' = [Response("update_contact", 404, "Contact not found",
                                token.sub) EXCEPT !.cid = contact_id]
                 /\ result' = {}
                 /\ db_calls' = <<"execute">>
                 /\ UNCHANGED contacts
            ELSE LET row == UpdatedContactRow(The(contact), ValidatedBody(body))
                     err == ContactIntegrityError(contacts \ contact, row) IN
                 IF err # "none"
                 THEN /\ resp' = [Response("update_contact", 422,
                                     extract_integrity_error_message(err, row),
                                     token.sub) EXCEPT !.cid = contact_id]
                      /\ result' = {}
                      /\ db_calls' = <<"execute", "commit">>
                      /\ UNCHANGED contacts
                 ELSE /\ contacts' = (contacts \ contact) \cup {row}
                      /\ resp' = [Response("update_contact", 200, "", token.sub)
                                     EXCEPT !.cid = contact_id]
                      /\ result' = {row}
                      /\ db_calls' = <<"execute", "commit", "refresh">>
    /\ UNCHANGED <<next_contact_id, today>>
    /\ UNCHANGED UserSide

\* a delete that is never committed
remove_contact_without_commit(token, contact_id) ==
    LET auth == get_current_user(token, now, cache, users) IN
    /\ IF auth = {}
       THEN /\ resp' = GateFailure("remove_contact", token)
            /\ result' = {}
            /\ db_calls' = <<>>
       ELSE LET contact == get_contact_by_id(contacts, The(auth), contact_id) IN
            /\ resp' = [(IF contact = {}
                         THEN Response("remove_contact", 404, "Contact not found",
                                       token.sub)
                         ELSE Response("remove_contact", 200, "", token.sub))
                            EXCEPT !.cid = contact_id]
            /\ result' = contact
            /\ db_calls' = IF contact = {} THEN <<"execute">>
                           ELSE <<"execute", "delete">>
    /\ UNCHANGED <<contacts, next_contact_id, today>>
    /\ UNCHANGED UserSide

\* a remove that deletes and commits whatever the lookup returned
remove_contact_unguarded(token, contact_id) ==
    LET auth == get_current_user(token, now, cache, users) IN
    /\ IF auth = {}
       THEN /\ resp' = GateFailure("remove_contact", token)
            /\ result' = {}
            /\ db_calls' = <<>>
            /\ UNCHANGED contacts
       ELSE LET contact == get_contact_by_id(contacts, The(auth), contact_id) IN
            /\ resp' = [(IF contact = {}
                         THEN Response("remove_contact", 404, "Contact not found",
                                       token.sub)
                         ELSE Response("remove_contact", 200, "", token.sub))
                            EXCEPT !.cid = contact_id]
            /\ result' = contact
            /\ db_calls' = <<"execute", "delete", "commit">>
            /\ contacts' = contacts \ contact
    /\ UNCHANGED <<next_contact_id, today>>
    /\ UNCHANGED UserSide

remove_contact(token, contact_id) ==
    LET auth == get_current_user(token, now, cache, users) IN
    /\ IF auth = {}
       THEN /\ resp' = GateFailure("remove_contact", token)
            /\ result' = {}
            /\ db_calls' = <<>>
            /\ UNCHANGED contacts
       ELSE LET contact == get_contact_by_id(contacts, The(auth), contact_id) IN
            /\ resp' = [(IF contact = {}
                         THEN Response("remove_contact", 404, "Contact not found",
                                       token.sub)
                         ELSE Response("remove_contact", 200, "", token.sub))
                            EXCEPT !.cid = contact_id]
            /\ result' = contact
            /\ db_calls' = IF contact = {} THEN <<"execute">>
                           ELSE <<"execute", "delete", "commit">>
            /\ contacts' = contacts \ contact
    /\ UNCHANGED <<next_contact_id, today>>
    /\ UNCHANGED UserSide

(***************************************************************************)
(* SpecContacts: two confirmed users, each holding an access token, work   *)
(* on the contact store                                                    *)
(***************************************************************************)
MaxContactId == 3

ContactEmails == {"al@x.io"}
PhoneInputs == {"+380671234567", "+380 67 123 4567", "+380501234567"}

RefDay == <<2024, 6, 10>>

ConfirmedUser(id, username, email) ==
    [id |-> id, username |-> username, email |-> email,
     hashed_password |-> get_password_hash("pw1"), role |-> "user",
     avatar |-> None, confirmed |-> TRUE]

TwoUsers ==
    {ConfirmedUser(1, "ann", "ann@x.io"), ConfirmedUser(2, "bob@x.io", "bob@x.io")}

AccessTokens == {create_access_token(u.username, 0) : u \in TwoUsers}

BadToken ==
    [sub |-> "ann", iat |-> -1, exp |-> JWT_EXPIRATION_MINUTES, sig |-> "bad"]

\* ContactCreateModel: first_name and phone are required
ContactCreateBodies ==
    [first_name : {"Al"}, last_name : {None},
     email : ContactEmails \cup {None}, phone : PhoneInputs,
     date_of_birth : {UnsetDate}]

\* ContactModel: first_name and date_of_birth may be left out
ContactUpdateBodies ==
    {[first_name |-> "Bo", last_name |-> None, email |-> None,
      phone |-> "+380671234567", date_of_birth |-> UnsetDate],
     [first_name |-> Unset, last_name |-> None, email |-> "al@x.io",
      phone |-> "+380501234567", date_of_birth |-> <<2000, 6, 13>>]}

ContactIds == 1..MaxContactId

InitContacts ==
    /\ users = TwoUsers
    /\ next_user_id = 3
    /\ contacts = {}
    /\ next_contact_id = 1
    /\ cache = [u \in Usernames |-> CacheAbsent]
    /\ mail = {}
    /\ tokens = AccessTokens
    /\ reg = <<>>
    /\ now = 0
    /\ today = RefDay
    /\ resp = NoResp
    /\ confirm_writes = [e \in Emails |-> 1]
    /\ result = {}
    /\ db_calls = <<>>

ReadContactsStep ==
    \E t \in tokens \cup {BadToken} :
        read_contacts(t, 0, NoLimit, None, None, None)

ReadBirthdaysStep ==
    \E t \in tokens \cup {BadToken} : read_contacts_with_birthdays(t)

ReadContactStep ==
    \E t \in tokens \cup {BadToken}, id \in ContactIds : read_contact(t, id)

CreateContactStep ==
    \E t \in tokens \cup {BadToken}, body \in ContactCreateBodies :
        next_contact_id <= MaxContactId /\ create_contact(t, body)

UpdateContactStep ==
    \E t \in tokens \cup {BadToken}, id \in ContactIds,
       body \in ContactUpdateBodies : update_contact(t, id, body)

RemoveContactStep ==
    \E t \in tokens \cup {BadToken}, id \in ContactIds : remove_contact(t, id)

NextContacts ==
    \/ ReadContactsStep
    \/ ReadBirthdaysStep
    \/ ReadContactStep
    \/ CreateContactStep
    \/ UpdateContactStep
    \/ RemoveContactStep

SpecContacts == InitContacts /\ [][NextContacts]_vars

(***************************************************************************)
(* SpecRegister: register requests running concurrently.  Each request has *)
(* its own database session; the handler suspends at every await, so the   *)
(* two lookups and the commit of create_user are separate steps.           *)
(***************************************************************************)
NumRequests == 2

Requests == 1..NumRequests

NoBody ==
    [username |-> None, email |-> None, password |-> None, role |-> None]

NoRequest == [pc |-> "idle", body |-> NoBody, status |-> 0]

\* lines 80-87: the lookup by email
register_check_email(r, body) ==
    /\ reg[r].pc = "idle"
    /\ reg' = [reg EXCEPT ![r] =
                 IF get_user_by_email(users, body.email) # {}
                 THEN [pc |-> "done", body |-> body, status |-> 409]
                 ELSE [pc |-> "check_username", body |-> body, status |-> 0]]
    /\ UNCHANGED <<users, next_user_id, cache, mail, tokens, now, resp,
                   confirm_writes>>
    /\ UNCHANGED ContactSide

\* lines 89-94: the lookup by username
register_check_username(r) ==
    /\ reg[r].pc = "check_username"
    /\ reg' = [reg EXCEPT ![r] =
                 IF get_user_by_username(users, reg[r].body.username) # {}
                 THEN [@ EXCEPT !.pc = "done", !.status = 409]
                 ELSE [@ EXCEPT !.pc = "create"]]
    /\ UNCHANGED <<users, next_user_id, cache, mail, tokens, now, resp,
                   confirm_writes>>
    /\ UNCHANGED ContactSide

\* lines 95-106: create_user commits; a unique violation raises
\* IntegrityError, which register_user does not catch: the request ends 500
register_create(r) ==
    LET row == NewUserRow(next_user_id, HashedBody(reg[r].body)) IN
    /\ reg[r].pc = "create"
    /\ next_user_id' = next_user_id + 1
    /\ IF UserUniqueViolation(users, row)
       THEN /\ reg' = [reg EXCEPT ![r] = [@ EXCEPT !.pc = "done", !.status = 500]]
            /\ UNCHANGED <<users, mail>>
       ELSE /\ users' = users \cup {row}
            /\ mail' = mail \cup {ConfirmTask(row)}
            /\ reg' = [reg EXCEPT ![r] = [@ EXCEPT !.pc = "done", !.status = 201]]
    /\ UNCHANGED <<cache, tokens, now, resp, confirm_writes>>
    /\ UNCHANGED ContactSide

InitRegister ==
    /\ users = {}
    /\ next_user_id = 1
    /\ contacts = {}
    /\ next_contact_id = 1
    /\ cache = [u \in Usernames |-> CacheAbsent]
    /\ mail = {}
    /\ tokens = {}
    /\ reg = [r \in Requests |-> NoRequest]
    /\ now = 0
    /\ today = NoDate
    /\ resp = NoResp
    /\ confirm_writes = [e \in Emails |-> 0]
    /\ result = {}
    /\ db_calls = <<>>

CheckEmailStep ==
    \E r \in Requests, body \in RegisterBodies : register_check_email(r, body)

CheckUsernameStep == \E r \in Requests : register_check_username(r)

CreateStep == \E r \in Requests : register_create(r)

NextRegister ==
    \/ CheckEmailStep
    \/ CheckUsernameStep
    \/ CreateStep

SpecRegister == InitRegister /\ [][NextRegister]_vars

(***************************************************************************)
(* SpecList: the two users seed their stores in batches and page through   *)
(* them with read_contacts                                                 *)
(***************************************************************************)
MaxSeeded == 11

SeedCounts == {5, 6}

\* limit as the request gives it: left out, below the floor, the floor,
\* inside the range, the ceiling, above the ceiling
ListLimits == {NoLimit, 5, 10, 11, 100, 101}

ListSkips == {0, 1}

\* Faker's date_of_birth(minimum_age=18, maximum_age=90) on RefDay
SeedBirthDate == <<2000, 6, 13>>

InitList ==
    /\ users = TwoUsers
    /\ next_user_id = 3
    /\ contacts = {}
    /\ next_contact_id = 1
    /\ cache = [u \in Usernames |-> CacheAbsent]
    /\ mail = {}
    /\ tokens = AccessTokens
    /\ reg = <<>>
    /\ now = 0
    /\ today = RefDay
    /\ resp = NoResp
    /\ confirm_writes = [e \in Emails |-> 1]
    /\ result = {}
    /\ db_calls = <<>>

SeedStep ==
    \E t \in tokens \cup {BadToken}, count \in SeedCounts :
        /\ next_contact_id + count - 1 <= MaxSeeded
        /\ seed_contacts(t, count, "Al", SeedBirthDate)

ListStep ==
    \E t \in tokens \cup {BadToken}, skip \in ListSkips, limit \in ListLimits,
       first_name \in {None, "Al"} :
        read_contacts(t, skip, limit, first_name, None, None)

NextList ==
    \/ SeedStep
    \/ ListStep

SpecList == InitList /\ [][NextList]_vars

(***************************************************************************)
(* SpecFilter: batches of contacts with different first names are seeded   *)
(* and listed with filters                                                 *)
(***************************************************************************)
ListQuery(skip, first_name, last_name, email) ==
    [skip |-> skip, first_name |-> first_name, last_name |-> last_name,
     email |-> email]

\* query strings: a filter may be left out, given, or given empty
FilterQueries ==
    {ListQuery(0, None, None, None),
     ListQuery(0, "Al", None, None),
     ListQuery(0, "", None, None),
     ListQuery(0, "Al", None, FakeEmail(1)),
     ListQuery(0, "Bo", "Shevchenko", FakeEmail(1)),
     ListQuery(0, None, "", None),
     ListQuery(10, None, "Shevchenko", None),
     ListQuery(10, "Al", None, None)}

SeedNamedStep ==
    \E t \in tokens, count \in SeedCounts, first_name \in {"Al", "Bo"} :
        /\ next_contact_id + count - 1 <= MaxSeeded
        /\ seed_contacts(t, count, first_name, SeedBirthDate)

FilterStep ==
    \E t \in tokens, q \in FilterQueries :
        read_contacts(t, q.skip, MIN_LIMIT, q.first_name, q.last_name, q.email)

NextFilter ==
    \/ SeedNamedStep
    \/ FilterStep

SpecFilter == InitList /\ [][NextFilter]_vars

(***************************************************************************)
(* SpecUnique: contacts are created, seeded and updated with phones and     *)
(* emails that collide: two spellings of one number, and a number and an   *)
(* email that Faker draws as well                                          *)
(***************************************************************************)
UniqueCreateBodies ==
    {[first_name |-> "Al", last_name |-> None, email |-> None,
      phone |-> "+380671234567", date_of_birth |-> UnsetDate],
     [first_name |-> "Al", last_name |-> None, email |-> None,
      phone |-> "+380 67 123 4567", date_of_birth |-> UnsetDate],
     [first_name |-> "Al", last_name |-> None, email |-> FakeEmail(2),
      phone |-> "+380671000002", date_of_birth |-> UnsetDate]}

UniqueSeedCounts == {1, 2}

MaxUniqueId == 2

UniqueCreateStep ==
    \E t \in tokens, body \in UniqueCreateBodies :
        next_contact_id <= MaxUniqueId /\ create_contact(t, body)

UniqueSeedStep ==
    \E t \in tokens, count \in UniqueSeedCounts :
        /\ next_contact_id + count - 1 <= MaxUniqueId
        /\ seed_contacts(t, count, "Al", SeedBirthDate)

UniqueUpdateStep ==
    \E t \in tokens, id \in ContactIds, body \in ContactUpdateBodies :
        update_contact(t, id, body)

NextUnique ==
    \/ UniqueCreateStep
    \/ UniqueSeedStep
    \/ UniqueUpdateStep

SpecUnique == InitContacts /\ [][NextUnique]_vars

(***************************************************************************)
(* SpecBirthday: contacts with a date of birth are seeded and the          *)
(* birthdays query runs, on a current date drawn from the days around the  *)
(* end of February (of a common and of a leap year) and around New Year    *)
(***************************************************************************)
MaxDayOffset == 9

MaxBirthdayContacts == 2

FirstDays == {<<2023, 2, 20>>, <<2024, 2, 20>>, <<2023, 12, 22>>}

CurrentDays == {AddDays(d, k) : d \in FirstDays, k \in 0..MaxDayOffset}

\* dates of birth Faker can draw (age 18 to 90 on every day of CurrentDays)
BirthDates == {<<2000, 3, 3>>, <<2001, 3, 3>>, <<2000, 1, 2>>, <<2000, 12, 30>>}

InitBirthday ==
    /\ users = TwoUsers
    /\ next_user_id = 3
    /\ contacts = {}
    /\ next_contact_id = 1
    /\ cache = [u \in Usernames |-> CacheAbsent]
    /\ mail = {}
    /\ tokens = AccessTokens
    /\ reg = <<>>
    /\ now = 0
    /\ today \in CurrentDays
    /\ resp = NoResp
    /\ confirm_writes = [e \in Emails |-> 1]
    /\ result = {}
    /\ db_calls = <<>>

SeedBirthdayStep ==
    \E t \in tokens, date_of_birth \in BirthDates :
        /\ next_contact_id <= MaxBirthdayContacts
        /\ seed_contacts(t, 1, "Al", date_of_birth)

BirthdaysStep == \E t \in tokens : read_contacts_with_birthdays(t)

NextBirthday ==
    \/ SeedBirthdayStep
    \/ BirthdaysStep

SpecBirthday == InitBirthday /\ [][NextBirthday]_vars

(***************************************************************************)
(* SpecCache: the gate over the session cache.  Redis starts with no key   *)
(* for a user or with a value some other writer left there; users are put  *)
(* into the cache, minutes pass, a user logs in again, changes the avatar   *)
(* and asks for /users/me.                                                 *)
(***************************************************************************)
MaxNow == 6

MaxTokens == 3

ForeignEntries ==
    {CacheAbsent,
     [CacheAbsent EXCEPT !.kind = "not_json"],
     [CacheAbsent EXCEPT !.kind = "json_not_object"]}

InitCache ==
    /\ users = TwoUsers
    /\ next_user_id = 3
    /\ contacts = {}
    /\ next_contact_id = 1
    /\ cache \in [Usernames -> ForeignEntries]
    /\ mail = {}
    /\ tokens = {create_access_token("ann", 0), create_email_token("ann@x.io", 0)}
    /\ reg = <<>>
    /\ now = 0
    /\ today = RefDay
    /\ resp = NoResp
    /\ confirm_writes = [e \in Emails |-> 1]
    /\ result = {}
    /\ db_calls = <<>>

CachePutStep == \E u \in users : update_cached_current_user(u)

TickStep == now < MaxNow /\ Tick

CacheLoginStep == Cardinality(tokens) < MaxTokens /\ login_user("ann", "pw1")

MeStep == \E t \in tokens : me(t)

CacheAvatarStep ==
    \E t \in tokens, url \in AvatarUrls : update_user_avatar(t, url)

NextCache ==
    \/ CachePutStep
    \/ TickStep
    \/ CacheLoginStep
    \/ MeStep
    \/ CacheAvatarStep

SpecCache == InitCache /\ [][NextCache]_vars

(***************************************************************************)
(* SpecTokens: the gate and the two action-token handlers are given        *)
(* tokens of every kind: signed by the service, forged, not a JWT at all,  *)
(* expired, and signed with JWT_SECRET over a payload without "sub"        *)
(***************************************************************************)
UnconfirmedUser(id, username, email) ==
    [ConfirmedUser(id, username, email) EXCEPT !.confirmed = FALSE]

\* an action token that was signed 7 days before the start
ExpiredEmailToken == create_email_token("bob@x.io", 0 - EMAIL_TOKEN_MINUTES)

MalformedToken == [sub |-> None, iat |-> -1, exp |-> -1, sig |-> "malformed"]

SignedWithoutSub ==
    [sub |-> NoSub, iat |-> 0, exp |-> EMAIL_TOKEN_MINUTES, sig |-> "ok"]

TokenInputs ==
    tokens \cup ForgedTokens
           \cup {BadToken, MalformedToken, ExpiredEmailToken, SignedWithoutSub}

InitTokens ==
    /\ users = {ConfirmedUser(1, "ann", "ann@x.io"),
                UnconfirmedUser(2, "bob", "bob@x.io")}
    /\ next_user_id = 3
    /\ contacts = {}
    /\ next_contact_id = 1
    /\ cache = [u \in Usernames |-> CacheAbsent]
    /\ mail = {}
    /\ tokens = {create_access_token("ann", 0),
                 create_email_token("ann@x.io", 0),
                 create_email_token("bob@x.io", 0)}
    /\ reg = <<>>
    /\ now = 0
    /\ today = RefDay
    /\ resp = NoResp
    /\ confirm_writes = [e \in Emails |-> IF e = "ann@x.io" THEN 1 ELSE 0]
    /\ result = {}
    /\ db_calls = <<>>

TokenMeStep == \E t \in TokenInputs : me(t)

TokenConfirmStep == \E t \in TokenInputs : confirmed_email(t)

TokenResetStep ==
    \E t \in TokenInputs, p \in RegisterPasswords : reset_password(t, p)

NextTokens ==
    \/ TokenMeStep
    \/ TokenConfirmStep
    \/ TokenResetStep
    \/ TickStep

SpecTokens == InitTokens /\ [][NextTokens]_vars

(***************************************************************************)
(* SpecSeed: the two users create contacts and seed batches; a contact that *)
(* holds the email and the phone Faker will draw for a later row makes the *)
(* commit of the batch fail                                                *)
(***************************************************************************)
MaxSeedId == 3

SeedBatchCounts == {1, 2}

\* a contact with the email and the phone of the third generated row
SeedCreateBodies ==
    {[first_name |-> "Al", last_name |-> None, email |-> FakeEmail(3),
      phone |-> "+380671000003", date_of_birth |-> UnsetDate],
     [first_name |-> "Al", last_name |-> None, email |-> None,
      phone |-> "+380671234567", date_of_birth |-> UnsetDate]}

SeedCreateStep ==
    \E t \in tokens, body \in SeedCreateBodies :
        next_contact_id <= MaxSeedId /\ create_contact(t, body)

SeedBatchStep ==
    \E t \in tokens \cup {BadToken}, count \in SeedBatchCounts :
        /\ next_contact_id + count - 1 <= MaxSeedId
        /\ seed_contacts(t, count, "Al", SeedBirthDate)

NextSeed ==
    \/ SeedCreateStep
    \/ SeedBatchStep

SpecSeed == InitContacts /\ [][NextSeed]_vars

(***************************************************************************)
(* SpecCachedGate: a user works on her contacts and her avatar while her    *)
(* record is put into the session cache, so that the gate answers from the *)
(* store at first and from the cache later; the gate is also given tokens  *)
(* that fail on each of its paths                                          *)
(***************************************************************************)
MaxGateId == 2

\* an access token whose time has run out
ExpiredAccessToken == create_access_token("ann", 0 - JWT_EXPIRATION_MINUTES)

\* a token that verifies and names nobody in the user store
UnknownUserToken == create_email_token("ann@x.io", 0)

GateTokens ==
    tokens \cup {BadToken, MalformedToken, SignedWithoutSub,
                 ExpiredAccessToken, UnknownUserToken}

GateCreateBodies ==
    {[first_name |-> "Al", last_name |-> None, email |-> "al@x.io",
      phone |-> "+380501234567", date_of_birth |-> UnsetDate]}

GateUpdateBodies ==
    {[first_name |-> "Bo", last_name |-> None, email |-> None,
      phone |-> "+380671234567", date_of_birth |-> UnsetDate]}

InitCachedGate ==
    /\ users = TwoUsers
    /\ next_user_id = 3
    /\ contacts = {}
    /\ next_contact_id = 1
    /\ cache \in [Usernames -> {CacheAbsent,
                                [CacheAbsent EXCEPT !.kind = "json_not_object"]}]
    /\ cache["bob@x.io"] = CacheAbsent
    /\ mail = {}
    /\ tokens = {create_access_token("ann", 0)}
    /\ reg = <<>>
    /\ now = 0
    /\ today = RefDay
    /\ resp = NoResp
    /\ confirm_writes = [e \in Emails |-> 1]
    /\ result = {}
    /\ db_calls = <<>>

GateIds == 1..MaxGateId

GatePutStep ==
    \E u \in users, t \in tokens :
        u.username = t.sub /\ update_cached_current_user(u)

GateMeStep == \E t \in GateTokens : me(t)

GateAvatarStep ==
    \E t \in tokens \cup {BadToken}, url \in AvatarUrls :
        update_user_avatar(t, url)

GateCreateStep ==
    \E t \in tokens \cup {BadToken}, body \in GateCreateBodies :
        next_contact_id <= MaxGateId /\ create_contact(t, body)

GateSeedStep ==
    \E t \in tokens \cup {BadToken} :
        next_contact_id <= MaxGateId /\ seed_contacts(t, 1, "Al", SeedBirthDate)

GateUpdateStep ==
    \E t \in tokens \cup {BadToken}, id \in GateIds,
       body \in GateUpdateBodies : update_contact(t, id, body)

GateRemoveStep ==
    \E t \in tokens \cup {BadToken}, id \in GateIds : remove_contact(t, id)

GateReadStep ==
    \E t \in tokens \cup {BadToken} :
        \/ \E id \in GateIds : read_contact(t, id)
        \/ read_contacts(t, 0, NoLimit, None, None, None)
        \/ read_contacts_with_birthdays(t)

NextCachedGate ==
    \/ GatePutStep
    \/ GateMeStep
    \/ GateAvatarStep
    \/ GateCreateStep
    \/ GateSeedStep
    \/ GateUpdateStep
    \/ GateRemoveStep
    \/ GateReadStep

SpecCachedGate == InitCachedGate /\ [][NextCachedGate]_vars

(***************************************************************************)
(* Claims about the contact API                                            *)
(***************************************************************************)
\* the id of the stored user a username names (0: none)
UserIdOf(username) ==
    IF \E u \in users : u.username = username
    THEN (CHOOSE u \in users : u.username = username).id
    ELSE 0

RowOps ==
    {"read_contacts", "read_contacts_with_birthdays", "read_contact",
     "remove_contact"}

\* C1: a contact never changes owner, and get_contact_by_id, get_contacts
\* (plain list or birthdays) and remove_contact invoked as user B return
\* only contacts owned by B, never a contact created under another user.
C1_ReadIsolation ==
    /\ [](resp.op \in RowOps => \A c \in result : c.user_id = UserIdOf(resp.arg))
    /\ [][\A c \in contacts' :
            /\ \A b \in contacts : b.id = c.id => b.user_id = c.user_id
            /\ (\A b \in contacts : b.id # c.id) => c.user_id = UserIdOf(resp'.arg)
         ]_vars

\* C1 witness: user B asked for the id of a contact that user A owns and got
\* no row, while B owns a contact too.
C1_Witness ==
    /\ resp.op = "read_contact"
    /\ resp.status = 404
    /\ result = {}
    /\ \E c \in contacts : c.id = resp.cid /\ c.user_id # UserIdOf(resp.arg)
    /\ \E c \in contacts : c.user_id = UserIdOf(resp.arg)

\* C2: update_contact or remove_contact invoked as user B with the id of a
\* contact owned by another user answers 404 and leaves the contact store,
\* that contact and every other one, as it was.
C2_WriteIsolation ==
    [][\A t \in tokens, id \in ContactIds :
        ( /\ \E c \in contacts : c.id = id /\ c.user_id # UserIdOf(t.sub)
          /\ resp'.cid = id
          /\ resp'.arg = t.sub
          /\ \/ \E body \in ContactUpdateBodies : update_contact(t, id, body)
             \/ remove_contact(t, id) )
        => /\ resp'.status = 404
           /\ result' = {}
           /\ contacts' = contacts]_vars

\* C2 witness: B's update of a contact of A was answered 404 while A holds
\* that contact and another one.
C2_Witness ==
    /\ resp.op = "update_contact"
    /\ resp.status = 404
    /\ \E c, d \in contacts :
          /\ c.id = resp.cid
          /\ c.user_id # UserIdOf(resp.arg)
          /\ d.id # c.id
          /\ d.user_id = c.user_id

(***************************************************************************)
(* Claims about the user API                                               *)
(***************************************************************************)

\* C4: a register request whose email already belongs to a stored user is
\* answered 409, leaves the user store as it was and schedules no email.
C4_DuplicateEmailRejected ==
    [][\A body \in RegisterBodies :
        (register_user(body) /\ \E u \in users : u.email = body.email)
        => /\ resp'.status = 409
           /\ users' = users
           /\ next_user_id' = next_user_id
           /\ mail' = mail
           /\ resp'.sched = NoTask]_vars

\* C4 witness: a 409 for an email that a stored user holds, the username
\* of the request being free.
C4_Witness ==
    /\ resp.op = "register"
    /\ resp.status = 409
    /\ resp.detail = "User with the email already exists."
    /\ \E u \in users : u.email = resp.arg
    /\ Cardinality(users) = 1

\* C5: login answers 401 and issues no token when the password does not
\* verify or the user is not confirmed (or unknown); it issues an access
\* token whose subject is the username exactly when the user exists, the
\* password verifies and confirmed is true.
C5_LoginGate ==
    [][\A u \in Usernames, p \in Passwords :
        login_user(u, p) =>
        LET ok == \E row \in users :
                      /\ row.username = u
                      /\ verify_password(p, row.hashed_password)
                      /\ row.confirmed
        IN  /\ ok => /\ resp'.status = 201
                     /\ resp'.token = create_access_token(u, now)
                     /\ resp'.token \in tokens'
            /\ ~ok => /\ resp'.status = 401
                      /\ resp'.token = NoToken
                      /\ tokens' = tokens]_vars

\* C5 witness: correct credentials of an unconfirmed user were refused,
\* after another user had logged in.
C5_Witness ==
    /\ resp.op = "login"
    /\ resp.status = 401
    /\ resp.detail = "Email address is not verified"
    /\ \E row \in users : row.username = resp.arg /\ ~row.confirmed
    /\ \E t \in tokens : t.iat = -1 /\ t.sub # resp.arg

\* C6: a user is created unconfirmed; the flag of a stored user changes only
\* from false to true and only in a step of confirmed_email.
C6_ConfirmedOnlyByConfirmation ==
    [][\A v \in users' :
        /\ (\A u \in users : u.id # v.id) => ~v.confirmed
        /\ \A u \in users :
              (u.id = v.id /\ u.confirmed # v.confirmed)
              => /\ ~u.confirmed
                 /\ v.confirmed
                 /\ \E t \in tokens \cup ForgedTokens : confirmed_email(t)]_vars

\* C6 witness: a confirmed user whose avatar was updated afterwards, beside
\* a user still unconfirmed.
C6_Witness ==
    /\ \E u \in users : u.confirmed /\ u.avatar # None
    /\ \E u \in users : ~u.confirmed
    /\ resp.op = "update_user_avatar"
    /\ resp.status = 200

\* C7: for a valid action token of a stored user, the first confirmed_email
\* sets confirmed and answers "verified" with one write; a later one answers
\* "already verified" and writes nothing: at most one write per email.
C7_ConfirmIdempotent ==
    /\ [](\A e \in Emails : confirm_writes[e] <= 1)
    /\ [][\A t \in tokens \cup ForgedTokens :
            (confirmed_email(t) /\ jwt_decode_ok(t, now))
            => \A u \in users :
                 u.email = t.sub =>
                 IF u.confirmed
                 THEN /\ resp'.detail = "Your email is already verified"
                      /\ resp'.status = 200
                      /\ users' = users
                      /\ confirm_writes' = confirm_writes
                 ELSE /\ resp'.detail = "Your email is verified"
                      /\ resp'.status = 200
                      /\ users' = (users \ {u}) \cup {[u EXCEPT !.confirmed = TRUE]}
                      /\ confirm_writes' = [confirm_writes EXCEPT
                                               ![t.sub] = confirm_writes[t.sub] + 1]]_vars

\* C7 witness: the second call was answered "already verified" after the
\* one write of the first.
C7_Witness ==
    /\ resp.op = "confirmed_email"
    /\ resp.detail = "Your email is already verified"
    /\ confirm_writes[resp.arg] = 1
    /\ \E u \in users : u.email = resp.arg /\ u.confirmed

\* C3: two concurrent register requests that collide on username or email
\* end with one 201 and one 409, and the store never holds two users with
\* the same username or the same email.
C3_RaceOneCreatedOneConflict ==
    /\ \A u, v \in users :
          (u.username = v.username \/ u.email = v.email) => u = v
    /\ \A r1, r2 \in Requests :
          ( /\ r1 # r2
            /\ reg[r1].pc = "done"
            /\ reg[r2].pc = "done"
            /\ \/ reg[r1].body.username = reg[r2].body.username
               \/ reg[r1].body.email = reg[r2].body.email )
          => {reg[r1].status, reg[r2].status} = {201, 409}

(***************************************************************************)
(* Claims about listing and the birthdays query                            *)
(***************************************************************************)
OwnRows == {c \in contacts : c.user_id = UserIdOf(resp.arg)}

\* C9: a plain list request with limit = L and any skip never returns more
\* than L contacts (no more than the default of 10 when no limit is given),
\* whatever the store holds.
C9_PageWithinLimit ==
    resp.op = "read_contacts"
        => /\ resp.limit # NoLimit => Cardinality(result) <= resp.limit
           /\ resp.limit = NoLimit => Cardinality(result) <= DEFAULT_LIMIT

\* C9 witness: a listing with limit 10 returned a full page of 10 while the
\* caller owns more than 10 contacts.
C9_Witness ==
    /\ resp.op = "read_contacts"
    /\ resp.status = 200
    /\ resp.limit = 10
    /\ Cardinality(result) = 10
    /\ Cardinality(OwnRows) > 10

\* C10 as stated: an authenticated list request with limit = 5 is served as
\* a successful listing with an effective limit of 10.
C10_ClampedToFloor ==
    (resp.op = "read_contacts" /\ resp.status # 401 /\ resp.limit = 5)
        => (resp.status = 200 /\ resp.eff = MIN_LIMIT)

\* C10 amended: an authenticated list request with a limit below 10 (such as
\* 5) or above 100 is rejected with 422 and returns no rows; a request
\* without a limit is served with the default of 10, and a limit from 10 to
\* 100 is served as given.
C10_OutOfRangeRejected ==
    (resp.op = "read_contacts" /\ resp.status # 401)
        => /\ (resp.limit # NoLimit /\ resp.limit < MIN_LIMIT)
                => (resp.status = 422 /\ result = {} /\ resp.eff = 0)
           /\ resp.limit > MAX_LIMIT
                => (resp.status = 422 /\ result = {} /\ resp.eff = 0)
           /\ resp.limit = NoLimit
                => (resp.status = 200 /\ resp.eff = DEFAULT_LIMIT)
           /\ (resp.limit >= MIN_LIMIT /\ resp.limit <= MAX_LIMIT)
                => (resp.status = 200 /\ resp.eff = resp.limit)

\* C10 witness: a user who owns contacts asked for limit = 5 and got 422
\* with no rows.
C10_Witness ==
    /\ resp.op = "read_contacts"
    /\ resp.limit = 5
    /\ resp.status = 422
    /\ result = {}
    /\ OwnRows # {}

\* the contacts of the caller whose anniversary (month and day) is one of
\* the next 7 days after today
BirthdayInNextDays(c) ==
    /\ c.date_of_birth # NoDate
    /\ \E k \in 1..BIRTHDAY_DAYS :
          LET d == AddDays(today, k) IN
          d[2] = c.date_of_birth[2] /\ d[3] = c.date_of_birth[3]

\* C8: the birthdays query returns exactly the caller's contacts whose
\* birthday anniversary falls within the next 7 days after today, for every
\* current date and date of birth, the turn of the year included.
C8_BirthdaysNextSevenDays ==
    (resp.op = "read_contacts_with_birthdays" /\ resp.status = 200)
        => result = {c \in OwnRows : BirthdayInNextDays(c)}

(***************************************************************************)
(* Claims about filters, update, delete and uniqueness                     *)
(***************************************************************************)
\* the caller's contacts that equal every filter of the last list request
\* for which Supplied(value) holds
Filtered(Supplied(_)) ==
    {c \in OwnRows :
        /\ Supplied(resp.first_name) => c.first_name = resp.first_name
        /\ Supplied(resp.last_name) => c.last_name = resp.last_name
        /\ Supplied(resp.email) => c.email = resp.email}

\* the page a list request returns of the rows it matched
IsPageOf(rows) ==
    /\ result \subseteq rows
    /\ Cardinality(result) =
          LET rest == IF Cardinality(rows) > resp.skip
                      THEN Cardinality(rows) - resp.skip ELSE 0 IN
          IF resp.eff < rest THEN resp.eff ELSE rest

GivenFilter(v) == v # None

NonEmptyFilter(v) == v \notin {None, ""}

\* the birthdays query answers the same whatever skip, limit and filters
\* get_contacts is given
BirthdayPathIgnoresPaging ==
    \A u \in users, q \in FilterQueries, limit \in {0, MIN_LIMIT} :
        get_contacts(contacts, u, q.skip, limit, q.first_name, q.last_name,
                     q.email, TRUE, today)
          = {{c \in contacts :
                c.user_id = u.id /\ c.date_of_birth # NoDate
                /\ has_birthday_next_days(c.date_of_birth, BIRTHDAY_DAYS, today)}}

\* C11 as stated: a plain list request returns only contacts of the owner
\* that equal every supplied filter (first_name, last_name, email, combined
\* with AND), skip and limit being applied to that filtered set; the
\* birthday path ignores skip, limit and the filters.
C11_FiltersExactAnd ==
    /\ (resp.op = "read_contacts" /\ resp.status = 200)
          => IsPageOf(Filtered(GivenFilter))
    /\ BirthdayPathIgnoresPaging

\* C11 amended: the same for every supplied filter that is not the empty
\* string; a filter given as the empty string is ignored.
C11_NonEmptyFiltersExactAnd ==
    /\ (resp.op = "read_contacts" /\ resp.status = 200)
          => IsPageOf(Filtered(NonEmptyFilter))
    /\ BirthdayPathIgnoresPaging

\* C11 witness: a list request with a first_name and an email filter and
\* skip 0 returned the one contact that equals both, while the caller owns
\* contacts with another first name and more than one with that first name.
C11_Witness ==
    /\ resp.op = "read_contacts"
    /\ resp.status = 200
    /\ resp.first_name = "Al"
    /\ resp.email = FakeEmail(1)
    /\ Cardinality(result) = 1
    /\ \E c \in OwnRows : c.first_name = "Bo"
    /\ Cardinality({c \in OwnRows : c.first_name = "Al"}) > 1

\* the contact with the given id in a store
RowWithId(cs, id) == CHOOSE c \in cs : c.id = id

\* C12: update_contact on an existing contact of the owner changes exactly
\* the fields the body supplies (to the validated values), leaves the
\* unsupplied fields, the id and the owner unchanged, touches no other
\* contact, and a get of the same id returns the updated row.
C12_UpdateChangesSuppliedFields ==
    /\ [][\A t \in tokens, id \in ContactIds, body \in ContactUpdateBodies :
            ( /\ \E c \in contacts : c.id = id /\ c.user_id = UserIdOf(t.sub)
              /\ resp'.op = "update_contact"
              /\ resp'.status = 200
              /\ resp'.cid = id
              /\ resp'.arg = t.sub
              /\ update_contact(t, id, body) )
            => LET old == RowWithId(contacts, id)
                   new == RowWithId(contacts', id) IN
               /\ new.id = old.id
               /\ new.user_id = old.user_id
               /\ new.first_name = IF body.first_name = Unset
                                   THEN old.first_name ELSE body.first_name
               /\ new.last_name = IF body.last_name = Unset
                                  THEN old.last_name ELSE body.last_name
               /\ new.email = IF body.email = Unset THEN old.email ELSE body.email
               /\ new.phone = IF body.phone = Unset
                              THEN old.phone ELSE NormalizePhone(body.phone)
               /\ new.date_of_birth = IF body.date_of_birth = UnsetDate
                                      THEN old.date_of_birth ELSE body.date_of_birth
               /\ contacts' \ {new} = contacts \ {old}
               /\ result' = {new}
         ]_vars
    /\ []((resp.op = "read_contact" /\ resp.status = 200)
            => result = {c \in contacts : c.id = resp.cid})

\* C12 witness: an update whose body left date_of_birth out and supplied
\* first_name returned the row with the new first name and the date of birth
\* an earlier update had stored.
C12_Witness ==
    /\ resp.op = "update_contact"
    /\ resp.status = 200
    /\ \E c \in result :
          /\ c \in contacts
          /\ c.first_name = "Bo"
          /\ c.date_of_birth = <<2000, 6, 13>>

\* C13: remove_contact on an existing contact of the owner returns the row
\* as it was and removes that row only; an id that has been handed out and
\* is not stored is never stored again, and read_contact by an authenticated caller
\* answers 404 exactly when the caller owns no contact with the id.
C13_RemoveThenAbsent ==
    /\ [][\A t \in tokens, id \in ContactIds :
            ( /\ \E c \in contacts : c.id = id /\ c.user_id = UserIdOf(t.sub)
              /\ resp'.op = "remove_contact"
              /\ resp'.cid = id
              /\ resp'.arg = t.sub
              /\ remove_contact(t, id) )
            => /\ resp'.status = 200
               /\ result' = {RowWithId(contacts, id)}
               /\ contacts' = contacts \ {RowWithId(contacts, id)}
         ]_vars
    /\ [][\A id \in 1..(next_contact_id - 1) :
            (\A c \in contacts : c.id # id) => (\A c \in contacts' : c.id # id)
         ]_vars
    /\ []((resp.op = "read_contact" /\ resp.status # 401)
            => /\ resp.status \in {200, 404}
               /\ resp.status = 404 <=> (\A c \in OwnRows : c.id # resp.cid)
               /\ resp.status = 404 => result = {})

\* C13 witness: a delete returned the contact it removed, the contact is no
\* longer stored, and another contact still is.
C13_Witness ==
    /\ resp.op = "remove_contact"
    /\ resp.status = 200
    /\ \E c \in result : c.id = resp.cid /\ (\A d \in contacts : d.id # c.id)
    /\ contacts # {}

WriteOps == {"create_contact", "update_contact", "seed_contacts"}

\* C14: no two stored contacts, of whatever owners, share a phone or a
\* non-null email; a create or seed whose phone or email is already stored,
\* and every create, update or seed that does not succeed, answers 422 (401
\* or 404 when the caller or the contact is not found) and leaves the
\* contact store unchanged.
C14_PhoneAndEmailUnique ==
    /\ [](\A c, d \in contacts :
            c # d => /\ c.id # d.id
                     /\ c.phone # d.phone
                     /\ c.email # None => c.email # d.email)
    /\ [][\A t \in tokens, body \in UniqueCreateBodies :
            ( /\ \E c \in contacts :
                    \/ c.phone = NormalizePhone(body.phone)
                    \/ body.email # None /\ c.email = body.email
              /\ resp'.op = "create_contact"
              /\ create_contact(t, body) )
            => (resp'.status = 422 /\ contacts' = contacts)
         ]_vars
    /\ [][\A t \in tokens, count \in UniqueSeedCounts :
            ( /\ \E c \in contacts, i \in 0..(count - 1) :
                    \/ c.phone = FakePhone(next_contact_id + i)
                    \/ c.email = FakeEmail(next_contact_id + i)
              /\ resp'.op = "seed_contacts"
              /\ seed_contacts(t, count, "Al", SeedBirthDate) )
            => (resp'.status = 422 /\ contacts' = contacts)
         ]_vars
    /\ [][resp'.op \in WriteOps
            => /\ resp'.status \in {200, 201, 401, 404, 422}
               /\ resp'.status \notin {200, 201} => contacts' = contacts
         ]_vars

\* C14 witness: a seed answered 422 because a stored contact of another id
\* holds the phone Faker drew, and the store still holds that contact only.
C14_Witness ==
    /\ resp.op = "seed_contacts"
    /\ resp.status = 422
    /\ Cardinality(contacts) = 1
    /\ \E c \in contacts, id \in ContactIds : c.id # id /\ c.phone = FakePhone(id)

(***************************************************************************)
(* Claims about the authentication gate and the session cache              *)
(***************************************************************************)
\* the cache holds a user object for the username
CacheHit(username) == username \in DOMAIN cache /\ cache[username].kind = "json"

\* the cache holds no key for the username
CacheMiss(username) ==
    username \notin DOMAIN cache \/ cache[username].kind = "absent"

\* C15: for a token that verifies, with subject u, the gate returns the
\* cached projection when the cache holds a user object for u, whatever the
\* user store holds; when the cache holds no key for u it returns the stored
\* user named u, and fails with 401 when there is none.
C15_CacheFirstThenStore ==
    [][\A t \in tokens :
        ( /\ jwt_decode_ok(t, now)
          /\ resp'.op = "me"
          /\ resp'.arg = t.sub
          /\ me(t) )
        => /\ CacheHit(t.sub)
                => /\ resp'.status = 200
                   /\ resp'.user = json_loads(cache[t.sub].data)
           /\ (CacheMiss(t.sub) /\ \E u \in users : u.username = t.sub)
                => /\ resp'.status = 200
                   /\ \E u \in users :
                         u.username = t.sub /\ resp'.user = Projection(u)
           /\ (CacheMiss(t.sub) /\ \A u \in users : u.username # t.sub)
                => /\ resp'.status = 401
                   /\ resp'.user = NoProjection
      ]_vars

\* C15 witness: /users/me returned the cached projection of a user whose
\* stored row has changed since it was cached.
C15_Witness ==
    /\ resp.op = "me"
    /\ resp.status = 200
    /\ CacheHit(resp.arg)
    /\ resp.user = json_loads(cache[resp.arg].data)
    /\ \E u \in users : u.username = resp.arg /\ Projection(u) # resp.user

C20_UndecodableTreatedAsAbsent ==
    [][\A t \in tokens :
        ( /\ jwt_decode_ok(t, now)
          /\ t.sub \in DOMAIN cache
          /\ cache[t.sub].kind \in {"not_json", "json_not_object"}
          /\ resp'.op = "me"
          /\ resp'.arg = t.sub
          /\ me(t) )
        => IF \E u \in users : u.username = t.sub
           THEN /\ resp'.status = 200
                /\ \E u \in users : u.username = t.sub /\ resp'.user = Projection(u)
           ELSE resp'.status = 401
      ]_vars

(***************************************************************************)
(* Claims about token verification                                         *)
(***************************************************************************)
\* the token does not verify: bad signature, not a JWT, expired, or a
\* signed payload without a subject
DoesNotVerify(t) == ~jwt_decode_ok(t, now) \/ t.sub \in {NoSub, None}

\* C16: the gate fails with 401, returns no user and fails with no other
\* error for every token that does not verify: bad signature, expired,
\* malformed, or correctly signed without a subject claim.
C16_GateRejectsWith401 ==
    [][\A t \in TokenInputs :
        ( /\ DoesNotVerify(t)
          /\ resp'.op = "me"
          /\ resp'.arg = t.sub
          /\ me(t) )
        => (resp'.status = 401 /\ resp'.user = NoProjection)
      ]_vars

\* C17: confirmed_email and reset_password fail with 422 and change no user
\* record for every token that does not verify: bad signature, expired,
\* malformed, or correctly signed without a subject claim.
C17_ActionTokenRejectsWith422 ==
    [][\A t \in TokenInputs :
        ( /\ DoesNotVerify(t)
          /\ resp'.op \in {"confirmed_email", "reset_password"}
          /\ resp'.arg = t.sub
          /\ \/ confirmed_email(t)
             \/ \E p \in RegisterPasswords : reset_password(t, p) )
        => (resp'.status = 422 /\ users' = users)
      ]_vars

\* create_access_token signs {"sub": username, "exp"}; create_email_token
\* signs {"sub": email, "iat", "exp"}
IsAccessToken(t) == t.sig = "ok" /\ t.iat = -1

IsActionToken(t) == t.sig = "ok" /\ t.iat >= 0

\* C18: a token issued as an access token is never accepted by
\* confirmed_email as proof of control of an email, and a token issued as an
\* action token is never accepted by the gate as a bearer credential,
\* whatever usernames and emails were registered.
C18_TokenKindsNotConfused ==
    [][\A t \in tokens :
        /\ IsAccessToken(t)
             => ~( /\ resp'.op = "confirmed_email"
                   /\ resp'.status = 200
                   /\ confirmed_email(t) )
        /\ IsActionToken(t)
             => ~( /\ resp'.op = "update_user_avatar"
                   /\ resp'.status = 200
                   /\ \E url \in AvatarUrls : update_user_avatar(t, url) )
      ]_vars

(***************************************************************************)
(* Claims about password reset and email delivery                          *)
(***************************************************************************)

\* C21: forgot_password answers 202 with the same body whether or not a
\* user with the email exists or is confirmed; it schedules the reset email
\* only for a stored, confirmed user, and it changes no user record.
C21_ForgotPasswordDoesNotReveal ==
    [][\A e \in Emails :
        forgot_password(e) =>
        LET known == \E u \in users : u.email = e /\ u.confirmed IN
        /\ resp'.status = 202
        /\ resp'.detail = "Password reset requested."
        /\ resp'.token = NoToken
        /\ resp'.user = NoProjection
        /\ users' = users
        /\ next_user_id' = next_user_id
        /\ known => \E u \in users :
                        /\ u.email = e
                        /\ resp'.sched = ResetTask(u)
                        /\ mail' = mail \cup {ResetTask(u)}
        /\ ~known => /\ resp'.sched = NoTask
                     /\ mail' = mail]_vars

\* C21 witness: a request for an email no user holds was accepted, after the
\* reset email of a confirmed user had been scheduled.
C21_Witness ==
    /\ resp.op = "forgot_password"
    /\ resp.status = 202
    /\ resp.sched = NoTask
    /\ ~\E u \in users : u.email = resp.arg
    /\ \E task \in mail, u \in users :
          task = ResetTask(u) /\ u.confirmed

\* repository/users.py, update_password: no handler reaches it, UserService
\* has no method of that name
UserRepository_update_password(us, email, password) ==
    {IF u.email = email THEN [u EXCEPT !.hashed_password = password]
     ELSE u : u \in us}

\* C22: POST reset_password with a valid action token of a stored, confirmed
\* user stores the hash of the submitted password and answers 201; for an
\* unknown or unconfirmed user it answers 400 and changes no password.
C22_ResetPasswordReplacesHash ==
    [][\A t \in tokens, p \in Passwords :
        (reset_password(t, p) /\ jwt_decode_ok(t, now) /\ t.sub \in Emails)
        => IF \E u \in users : u.email = t.sub /\ u.confirmed
           THEN /\ resp'.status = 201
                /\ users' = UserRepository_update_password(
                               users, t.sub, get_password_hash(p))
           ELSE /\ resp'.status = 400
                /\ users' = users]_vars

\* C23: whatever the outcome of a send_email task, the response of the
\* request that scheduled it and the user store stay as they were: a
\* register answered 201 keeps its created user stored, and forgot_password
\* is answered 202.
C23_DeliveryFailureNotSurfaced ==
    /\ [][\A task \in mail, o \in SendOutcomes :
            send_email(task, o)
            => /\ resp' = resp
               /\ users' = users
               /\ next_user_id' = next_user_id]_vars
    /\ []((resp.op = "register" /\ resp.sched # NoTask)
            => /\ resp.status = 201
               /\ \E u \in users :
                     /\ u.id = resp.user.id
                     /\ u.username = resp.user.username
                     /\ u.email = resp.user.email)
    /\ [](resp.op = "forgot_password" => resp.status = 202)

\* C23 witness: the confirmation email of a registered user ran without
\* being delivered (nobody holds an action token for the address), and the
\* 201 and the stored user are still there.
C23_Witness ==
    /\ resp.op = "register"
    /\ resp.status = 201
    /\ resp.sched \notin mail
    /\ ~\E t \in tokens : t.sub = resp.arg
    /\ \E u \in users : u.id = resp.user.id /\ u.email = resp.arg

(***************************************************************************)
(* Claims about the repository calls and the frame of the contact API      *)
(***************************************************************************)
\* the session methods called for the last contact request
CallsMade(calls) == {calls[i] : i \in DOMAIN calls}

\* C24: update_contact and remove_contact called with an id that matches no
\* contact of the owner return absent (the handler answers 404), issue no
\* commit and no delete, and leave the contact store unchanged.
C24_AbsentIdNoCommitNoDelete ==
    [][\A t \in tokens, id \in ContactIds :
        ( /\ resp'.cid = id
          /\ resp'.arg = t.sub
          /\ get_current_user_status(t, now, cache, users) = 200
          /\ ~\E c \in contacts : c.id = id /\ c.user_id = UserIdOf(t.sub)
          /\ \/ \E body \in ContactUpdateBodies :
                   /\ date_of_birth_accepted(body.date_of_birth, today)
                   /\ update_contact(t, id, body)
             \/ remove_contact(t, id) )
        => /\ result' = {}
           /\ resp'.status = 404
           /\ CallsMade(db_calls') \cap {"commit", "delete", "add"} = {}
           /\ contacts' = contacts
           /\ next_contact_id' = next_contact_id]_vars

\* C24 witness: a remove of an id no contact has was answered 404 after the
\* one lookup, the caller owning a contact.
C24_Witness ==
    /\ resp.op = "remove_contact"
    /\ resp.status = 404
    /\ db_calls = <<"execute">>
    /\ ~\E c \in contacts : c.id = resp.cid
    /\ \E c \in contacts : c.user_id = UserIdOf(resp.arg)

ProtectedOps ==
    {"me", "update_user_avatar", "read_contacts", "read_contacts_with_birthdays",
     "read_contact", "seed_contacts", "create_contact", "update_contact",
     "remove_contact"}

\* C25: the authentication gate, when it returns a user (from the cache or
\* from the store) and on each path on which it fails, leaves the user store
\* and the contact store as they were; it may write the session cache only.
C25_GateWritesNoStore ==
    /\ [][\A t \in GateTokens :
            me(t) => /\ users' = users
                     /\ next_user_id' = next_user_id
                     /\ contacts' = contacts
                     /\ next_contact_id' = next_contact_id
                     /\ confirm_writes' = confirm_writes]_vars
    /\ [][( /\ resp'.op \in ProtectedOps
            /\ \/ resp'.detail = "Could not validate credentials"
               \/ \E t \in GateTokens :
                     /\ resp'.arg = t.sub
                     /\ get_current_user_status(t, now, cache, users) = 500 )
          => /\ users' = users
             /\ next_user_id' = next_user_id
             /\ contacts' = contacts
             /\ next_contact_id' = next_contact_id]_vars

\* C25 witness: the gate answered GET /users/me from the cache with an avatar
\* the stored user no longer has, the user owning a contact.
C25_Witness ==
    /\ resp.op = "me"
    /\ resp.status = 200
    /\ CacheHit(resp.arg)
    /\ \E u \in users :
          /\ u.username = resp.arg
          /\ u.avatar # resp.user.avatar
          /\ \E c \in contacts : c.user_id = u.id

\* C26: seed is all or nothing: when it succeeds exactly count new contacts
\* of the owner exist and no contact of anybody is changed or removed; when
\* the commit of the batch fails on a uniqueness violation none of the
\* generated contacts is persisted.
C26_SeedAllOrNothing ==
    [][\A t \in tokens, count \in SeedBatchCounts :
        seed_contacts(t, count, "Al", SeedBirthDate)
        => /\ resp'.status \in {201, 422}
           /\ resp'.status = 201
                => /\ contacts \subseteq contacts'
                   /\ Cardinality(contacts' \ contacts) = count
                   /\ \A c \in contacts' \ contacts :
                         /\ c.user_id = UserIdOf(t.sub)
                         /\ \A b \in contacts : b.id # c.id
           /\ resp'.status = 422 => contacts' = contacts]_vars

\* C26 witness: a batch of two rows failed at its commit, the second row
\* colliding with a stored contact and the first one not; the store holds
\* that one contact only.
C26_Witness ==
    /\ resp.op = "seed_contacts"
    /\ resp.status = 422
    /\ db_calls = <<"add", "add", "commit">>
    /\ next_contact_id = 4
    /\ Cardinality(contacts) = 1
    /\ \E c \in contacts : c.email = FakeEmail(3)

(***************************************************************************)
(* Claims about the birthday predicate and the issued access tokens        *)
(***************************************************************************)
\* the specified algorithm: the age in years as of today + 7 days is
\* greater than the age in years as of today
AgeGrowsInNextDays(c) ==
    /\ c.date_of_birth # NoDate
    /\ AgeYears(c.date_of_birth, AddDays(today, BIRTHDAY_DAYS))
          > AgeYears(c.date_of_birth, today)

\* C27: the implemented predicate (the age of the date of birth moved back
\* by 7 days exceeds the age of the date of birth, both as of today) selects
\* exactly the contacts the specified algorithm selects, for every current
\* date and date of birth, leap years and month ends included.
C27_PredicateEqualsAlgorithm ==
    (resp.op = "read_contacts_with_birthdays" /\ resp.status = 200)
        => result = {c \in OwnRows : AgeGrowsInNextDays(c)}

\* C28: every access token login has issued names a user who was confirmed
\* when it was issued; a user never confirmed holds no such token, and no
\* such token takes an unconfirmed user through the gate.
C28_AccessTokensOfConfirmedUsers ==
    /\ [][\A t \in tokens' \ tokens :
            IsAccessToken(t)
            => /\ resp'.op = "login"
               /\ resp'.token = t
               /\ \E u \in users : u.username = t.sub /\ u.confirmed]_vars
    /\ [](\A u \in users :
            ~u.confirmed
            => \A t \in tokens : IsAccessToken(t) => t.sub # u.username)
    /\ [](\A t \in tokens :
            IsAccessToken(t)
            => \A u \in get_current_user(t, now, cache, users) : u.confirmed)

\* C28 witness: one user logged in after confirming and holds an access
\* token that passes the gate; another, registered and mailed, never
\* confirmed, was refused by login and holds none.
C28_Witness ==
    /\ resp.op = "login"
    /\ resp.detail = "Email address is not verified"
    /\ \E u \in users :
          /\ u.username = resp.arg
          /\ ~u.confirmed
          /\ \E t \in tokens : IsActionToken(t) /\ t.sub = u.email
    /\ \E t \in tokens :
          /\ IsAccessToken(t)
          /\ get_current_user(t, now, cache, users) # {}

(***************************************************************************)
(* Claims about contact operations under a cached user                     *)
(***************************************************************************)
ContactOps ==
    {"read_contacts", "read_contacts_with_birthdays", "read_contact",
     "seed_contacts", "create_contact", "update_contact", "remove_contact"}

\* C29: a contact operation never adds, removes or changes a user record,
\* whether the gate took the acting user from the user store or from the
\* cache; in either case create stores a contact owned by the stored user
\* that has the acting user's id.
C29_ContactOpsLeaveUsersAlone ==
    /\ [][resp'.op \in ContactOps
            => /\ users' = users
               /\ next_user_id' = next_user_id]_vars
    /\ [][\A t \in tokens, body \in GateCreateBodies :
            ( /\ create_contact(t, body)
              /\ get_current_user_status(t, now, cache, users) = 200
              /\ ContactIntegrityError(
                     contacts,
                     NewContactRow(next_contact_id, [id |-> UserIdOf(t.sub)],
                                   ValidatedBody(body))) = "none" )
            => /\ resp'.status = 201
               /\ \E c \in contacts' \ contacts :
                     /\ c.id = resp'.cid
                     /\ c.user_id = UserIdOf(t.sub)
                     /\ \E u \in users' : u.id = c.user_id]_vars

(***************************************************************************)
(* Claims about what the outcome of a write depends on                     *)
(***************************************************************************)
Outcome(r) == <<r.status, r.detail>>

\* the status and the message create_contact answers on the store S
CreateOutcomeOn(S, t, body) ==
    LET row == NewContactRow(next_contact_id, [id |-> UserIdOf(t.sub)],
                             ValidatedBody(body))
        err == ContactIntegrityError(S, row) IN
    IF ~date_of_birth_accepted(body.date_of_birth, today)
    THEN <<422, "Date should be in the past">>
    ELSE IF err # "none" THEN <<422, extract_integrity_error_message(err, row)>>
    ELSE <<201, "">>

\* the status and the message update_contact answers on the store S
UpdateOutcomeOn(S, t, id, body) ==
    LET contact == {c \in S : c.id = id /\ c.user_id = UserIdOf(t.sub)} IN
    IF ~date_of_birth_accepted(body.date_of_birth, today)
    THEN <<422, "Date should be in the past">>
    ELSE IF contact = {} THEN <<404, "Contact not found">>
    ELSE LET row == UpdatedContactRow(The(contact), ValidatedBody(body))
             err == ContactIntegrityError(S \ contact, row) IN
         IF err # "none" THEN <<422, extract_integrity_error_message(err, row)>>
         ELSE <<200, "">>

OwnContacts(t) == {c \in contacts : c.user_id = UserIdOf(t.sub)}

\* the contacts of other users that hold the email or the phone of a row
HoldingValuesOf(row, t) ==
    {c \in contacts :
        /\ c.user_id # UserIdOf(t.sub)
        /\ \/ row.email # None /\ c.email = row.email
           \/ c.phone = row.phone}

====
